---- MODULE Spec2Model ----
(***************************************************************************)
(* Query-time pipeline of the knowledge Q&A bot: Retriever, RAGPipeline,   *)
(* PromptBuilder and RAGMetrics.                                           *)
(*                                                                         *)
(* Scores are integers in hundredths (0.95 is 95).  Text is a sequence of  *)
(* one-character strings, so that lower(), strip(), split(), startswith()  *)
(* and the substring test are computed the way Python computes them.       *)
(***************************************************************************)
EXTENDS Integers, Sequences, FiniteSets, TLC

VARIABLES
    metadata,             \* Retriever.metadata: the loaded metadata table (list)
    index,                \* Retriever.index: inner product of every stored vector with each query
    rerank,               \* Retriever.rerank
    edge_case_min_score,  \* Retriever.edge_case_min_score / RAGPipeline.edge_case_min_score
    similarity_threshold, \* Retriever.similarity_threshold
    top_k,                \* Retriever.top_k
    max_context_length,   \* PromptBuilder.max_context_length
    disk,                 \* the persisted artifacts: index.faiss and metadata.json
    seen_sources,         \* the set seen_sources of the last retrieve() at its return
    last,                 \* the last call: its operation, arguments and outcome
    pinned                \* arguments and result of the first retrieve() that returned

vars == <<metadata, index, rerank, edge_case_min_score, similarity_threshold,
          top_k, max_context_length, disk, seen_sources, last, pinned>>

\* what is loaded or configured at construction and only read afterwards
loaded == <<metadata, index, rerank, edge_case_min_score, similarity_threshold,
            top_k, max_context_length>>

(***************************************************************************)
(* Bounds of the model.                                                    *)
(***************************************************************************)
MaxDocs == 3
MaxTopK == 3

\* an argument that is not given (Python None)
None == -999

(***************************************************************************)
(* Text.                                                                   *)
(***************************************************************************)
Whitespace == {" ", "\n", "\t"}

UpperMap ==
    [c \in {"A","B","C","D","E","F","G","H","I","J","K","L","M","N","O","P","Q",
            "R","S","T","U","V","W","X","Y","Z"} |->
        CASE c = "A" -> "a" [] c = "B" -> "b" [] c = "C" -> "c" [] c = "D" -> "d"
          [] c = "E" -> "e" [] c = "F" -> "f" [] c = "G" -> "g" [] c = "H" -> "h"
          [] c = "I" -> "i" [] c = "J" -> "j" [] c = "K" -> "k" [] c = "L" -> "l"
          [] c = "M" -> "m" [] c = "N" -> "n" [] c = "O" -> "o" [] c = "P" -> "p"
          [] c = "Q" -> "q" [] c = "R" -> "r" [] c = "S" -> "s" [] c = "T" -> "t"
          [] c = "U" -> "u" [] c = "V" -> "v" [] c = "W" -> "w" [] c = "X" -> "x"
          [] c = "Y" -> "y" [] c = "Z" -> "z"]

\* str.lower()
Lower(s) ==
    [i \in 1..Len(s) |-> IF s[i] \in DOMAIN UpperMap THEN UpperMap[s[i]] ELSE s[i]] \o <<>>

\* str.strip()
Strip(s) ==
    IF \A i \in 1..Len(s) : s[i] \in Whitespace THEN <<>>
    ELSE LET lo == CHOOSE i \in 1..Len(s) :
                       s[i] \notin Whitespace /\ \A j \in 1..(i - 1) : s[j] \in Whitespace
             hi == CHOOSE i \in 1..Len(s) :
                       s[i] \notin Whitespace /\ \A j \in (i + 1)..Len(s) : s[j] \in Whitespace
         IN  SubSeq(s, lo, hi)

\* s.startswith(p)
StartsWith(s, p) == Len(p) <= Len(s) /\ SubSeq(s, 1, Len(p)) = p

\* p in s
Contains(s, p) == \E i \in 1..(Len(s) - Len(p) + 1) : SubSeq(s, i, i + Len(p) - 1) = p

\* set(s.split()): the maximal runs of non-whitespace characters of s
RECURSIVE SplitFrom(_, _, _, _)
SplitFrom(s, i, word, words) ==
    IF i > Len(s) THEN (IF word = <<>> THEN words ELSE words \cup {word})
    ELSE IF s[i] \in Whitespace
         THEN SplitFrom(s, i + 1, <<>>, IF word = <<>> THEN words ELSE words \cup {word})
         ELSE SplitFrom(s, i + 1, Append(word, s[i]), words)

SplitSet(s) == SplitFrom(s, 1, <<>>, {})

Min(a, b) == IF a < b THEN a ELSE b
Max(a, b) == IF a > b THEN a ELSE b

(***************************************************************************)
(* IndexBuilder: the persisted artifacts.                                  *)
(***************************************************************************)
\* a file that does not exist
NoFile == [exists |-> FALSE, build |-> 0, content |-> <<>>]
\* a file written by the build with the given number
File(content, build) == [exists |-> TRUE, build |-> build, content |-> content]

\* the artifacts after a complete _save_index of one build
Saved(index_value, metadata_value, build) ==
    [index_file |-> File(index_value, build), metadata_file |-> File(metadata_value, build)]

\* if not index_file.exists() or not metadata_file.exists(): raise FileNotFoundError
BothFilesExist(artifacts) == artifacts.index_file.exists /\ artifacts.metadata_file.exists

\* IndexBuilder.load_index over the artifacts as they are when it reads them
load_index(artifacts) ==
    IF ~BothFilesExist(artifacts)
    THEN [raised |-> TRUE, error |-> "FileNotFoundError"]
    ELSE [raised |-> FALSE, error |-> "",
          index |-> artifacts.index_file.content,
          metadata |-> artifacts.metadata_file.content]

(***************************************************************************)
(* Retriever.                                                              *)
(***************************************************************************)
\* Embedder.embed_text: blank text gets the zero vector and the service is not called
EmbedCallsFor(query) == IF Strip(query) = <<>> THEN 0 ELSE 1

\* the number of vectors in the index (index.ntotal)
NTotal == Len(index[CHOOSE q \in DOMAIN index : TRUE])

\* inner products of the stored vectors with the normalized query vector
\* (the zero vector of a blank query has inner product 0 with every vector)
InnerProducts(query) ==
    IF Strip(query) = <<>> THEN [i \in 1..NTotal |-> 0] ELSE index[query]

\* faiss IndexFlatIP.search: the search_k best (distance, doc_idx) pairs, highest
\* inner product first, padded with doc_idx = -1 when the index is smaller
RECURSIVE SearchWorstFirst(_, _, _)
SearchWorstFirst(products, remaining, search_k) ==
    IF search_k = 0 THEN <<>>
    ELSE IF remaining = {} THEN
        <<[distance |-> -1000, doc_idx |-> -1]>>
            \o SearchWorstFirst(products, remaining, search_k - 1)
    ELSE LET worst == CHOOSE i \in remaining : \A j \in remaining :
                         \/ products[i] < products[j]
                         \/ (products[i] = products[j] /\ i <= j)
         IN  <<[distance |-> products[worst], doc_idx |-> worst - 1]>>
                 \o SearchWorstFirst(products, remaining \ {worst}, search_k - 1)

RECURSIVE SearchFrom(_, _, _)
SearchFrom(products, remaining, search_k) ==
    IF search_k = 0 THEN <<>>
    ELSE IF remaining = {} THEN
        <<[distance |-> -1000, doc_idx |-> -1]>> \o SearchFrom(products, remaining, search_k - 1)
    ELSE LET best == CHOOSE i \in remaining : \A j \in remaining :
                        \/ products[i] > products[j]
                        \/ (products[i] = products[j] /\ i <= j)
         IN  <<[distance |-> products[best], doc_idx |-> best - 1]>>
                 \o SearchFrom(products, remaining \ {best}, search_k - 1)

search(query, search_k) == SearchFrom(InnerProducts(query), 1..NTotal, search_k)

\* the clamp without its upper bound
ClampedBelowOnly(similarity_score) == Max(similarity_score, 0)
\* normalized_score = min(max(similarity_score, 0.0), 1.0)
NormalizedScore(similarity_score) == Min(Max(similarity_score, 0), 100)

\* an optional chat history: None, or a list of turns
NoHistory == [given |-> FALSE, turns |-> <<>>]
History(turns) == [given |-> TRUE, turns |-> turns]

\* a key that a dict does not have, and dict.get(key, default)
Missing == "<missing>"
Get(value, default) == IF value = Missing THEN default ELSE value

\* self.metadata[doc_idx] if 0 <= doc_idx < len(self.metadata) else {}
EmptyDoc ==
    [content |-> <<>>,
     metadata |-> [source |-> Missing, filename |-> Missing, file_type |-> Missing]]
DocMetadata(doc_idx) ==
    IF 0 <= doc_idx /\ doc_idx < Len(metadata) THEN metadata[doc_idx + 1] ELSE EmptyDoc

\* seen_sources = set(): the mutant keeps the set of the previous call
KeptSeenSources == seen_sources
NewSeenSources == {}

\* max_score = 0.0
InitialMaxScore == 0

\* the walk without the dedup by source
RECURSIVE WalkNoDedup(_, _, _, _, _, _, _)
WalkNoDedup(cands, i, results, seen, max_score, k, threshold) ==
    IF i > Len(cands) \/ cands[i].doc_idx = -1
    THEN [results |-> results, seen |-> seen, max_score |-> max_score]
    ELSE LET normalized_score == NormalizedScore(cands[i].distance)
             new_max == IF normalized_score > max_score THEN normalized_score ELSE max_score
             doc_metadata == DocMetadata(cands[i].doc_idx)
             new_results ==
                 IF normalized_score >= threshold
                 THEN Append(results, [content |-> doc_metadata.content,
                                       metadata |-> doc_metadata.metadata,
                                       score |-> normalized_score])
                 ELSE results
         IN  IF Len(new_results) >= k
             THEN [results |-> new_results, seen |-> seen, max_score |-> new_max]
             ELSE WalkNoDedup(cands, i + 1, new_results, seen, new_max, k, threshold)

\* the for loop of retrieve(): clamp, running maximum, dedup by source,
\* threshold filter, stop at top_k results
RECURSIVE WalkCandidates(_, _, _, _, _, _, _)
WalkCandidates(cands, i, results, seen, max_score, k, threshold) ==
    IF i > Len(cands) \/ cands[i].doc_idx = -1
    THEN [results |-> results, seen |-> seen, max_score |-> max_score]
    ELSE LET normalized_score == NormalizedScore(cands[i].distance)
             new_max == IF normalized_score > max_score THEN normalized_score ELSE max_score
             doc_metadata == DocMetadata(cands[i].doc_idx)
             source_file == Get(doc_metadata.metadata.source, "")
         IN  IF source_file \in seen
             THEN WalkCandidates(cands, i + 1, results, seen, new_max, k, threshold)
             ELSE LET new_results ==
                          IF normalized_score >= threshold
                          THEN Append(results, [content |-> doc_metadata.content,
                                                metadata |-> doc_metadata.metadata,
                                                score |-> normalized_score])
                          ELSE results
                  IN  IF Len(new_results) >= k
                      THEN [results |-> new_results, seen |-> seen \cup {source_file},
                            max_score |-> new_max]
                      ELSE WalkCandidates(cands, i + 1, new_results,
                                          seen \cup {source_file}, new_max, k, threshold)

\* keyword_matches = sum(1 for term in query_terms if term in content_lower)
KeywordMatches(query_terms, content) ==
    LET content_lower == Lower(content)
    IN  Cardinality({term \in query_terms : Contains(content_lower, term)})

\* boost = min(keyword_matches * 0.05, 0.15); score = min(score + boost, 1.0)
Boosted(query_terms, result) ==
    [result EXCEPT !.score =
        Min(result.score + Min(KeywordMatches(query_terms, result.content) * 5, 15), 100)]

\* sorted(results, key=score, reverse=True): stable, equal scores keep their order
RECURSIVE SortedByScore(_)
SortedByScore(results) ==
    IF results = <<>> THEN <<>>
    ELSE LET best == CHOOSE i \in 1..Len(results) : \A j \in 1..Len(results) :
                        \/ results[i].score > results[j].score
                        \/ (results[i].score = results[j].score /\ i <= j)
         IN  <<results[best]>> \o
             SortedByScore(SubSeq(results, 1, best - 1)
                               \o SubSeq(results, best + 1, Len(results)))

_rerank_results(query, results) ==
    LET query_terms == SplitSet(Lower(query))
    IN  SortedByScore([i \in 1..Len(results) |-> Boosted(query_terms, results[i])] \o <<>>)

\* the confidence gate with the similarity threshold in place of edge_case_min_score
GateFiresOnThreshold(max_score, threshold) == max_score < threshold
\* if max_score < self.edge_case_min_score: return []
GateFires(max_score, threshold) == max_score < edge_case_min_score

\* whether index.search can accept, and can refuse, search_k: the faiss wrapper asserts
\* k > 0 (an assert is skipped under python -O, and releases before the assert return
\* arrays of width 0); a negative k fails in every build when the arrays are allocated
SearchOutcomes(search_k) ==
    IF search_k > 0 THEN {TRUE} ELSE IF search_k = 0 THEN BOOLEAN ELSE {FALSE}

\* the number of results asked for: top_k, or self.top_k when top_k is None
EffectiveTopK(top_k_arg) == IF top_k_arg = None THEN top_k ELSE top_k_arg

\* a failed embedding call answered with the zero vector of a blank text
EmbeddingSwallowed(embed_calls, embed_ok) == FALSE
\* Embedder.embed_text logs the failure of its embeddings.create call and re-raises it;
\* retrieve logs and re-raises in turn
EmbeddingRaises(embed_calls, embed_ok) == embed_calls = 1 /\ ~embed_ok

\* a search for exactly top_k candidates, with nothing to spare for the dedup
FetchTopKOnly(k) == k
\* search_k = top_k * 3: retrieve more to account for deduplication
SearchK(k) == k * 3

\* Retriever.retrieve; embed_ok and search_ok are the outcomes of the embedding service
\* call and of index.search (search_ok is drawn from SearchOutcomes)
retrieve(query, top_k_arg, threshold_arg, embed_ok, search_ok) ==
    LET k == EffectiveTopK(top_k_arg)
        threshold == IF threshold_arg = None THEN similarity_threshold ELSE threshold_arg
        embed_calls == EmbedCallsFor(query)
        none == [raised |-> FALSE, error |-> "", results |-> <<>>, embed_calls |-> embed_calls,
                 search_calls |-> 0, candidates |-> <<>>, max_score |-> 0, seen |-> {},
                 top_k |-> k, threshold |-> threshold]
    IN  IF EmbeddingRaises(embed_calls, embed_ok)
        THEN [none EXCEPT !.raised = TRUE, !.error = "OpenAIError"]
        ELSE IF ~search_ok
        THEN [none EXCEPT !.raised = TRUE, !.error = "AssertionError", !.search_calls = 1]
        ELSE LET cands == search(query, SearchK(k))
                 walk == WalkCandidates(cands, 1, <<>>, NewSeenSources, InitialMaxScore,
                                        k, threshold)
                 found == [none EXCEPT !.search_calls = 1, !.candidates = cands,
                                       !.max_score = walk.max_score, !.seen = walk.seen]
             IN  IF GateFires(walk.max_score, threshold) THEN found
                 ELSE IF rerank
                      THEN [found EXCEPT !.results = _rerank_results(query, walk.results)]
                      ELSE [found EXCEPT !.results = walk.results]

(***************************************************************************)
(* Inputs of the retriever model.                                          *)
(***************************************************************************)
Q_PTO == <<"H","o","w"," ","p","t","o"," ","d","a","y","s"," ","w","o","r","k","?">>
Q_REMOTE == <<"r","e","m","o","t","e"," ","w","o","r","k">>

KnowledgeQueries == {Q_PTO, Q_REMOTE}

C_MISC == <<"m","i","s","c">>
C_PTO == <<"P","T","O"," ","d","a","y","s",":"," ","h","o","w"," ","t","h","e","y"," ","w","o","r","k","?">>
C_REMOTE == <<"r","e","m","o","t","e">>

\* the chunk texts of an index, by position
ContentPatterns == {
    [i \in 1..(MaxDocs + 1) |-> C_MISC],
    [i \in 1..(MaxDocs + 1) |-> IF i % 2 = 0 THEN C_PTO ELSE C_MISC],
    [i \in 1..(MaxDocs + 1) |-> IF i % 2 = 1 THEN C_REMOTE ELSE C_PTO] }

Sources == {"a/x.md", "b/x.md"}

RawScores == {-5, 88, 91, 95, 103}

\* the non-increasing sequences of n raw scores
SortedScores(n, scoreSet) ==
    {s \in [1..n -> scoreSet] : \A i \in 1..(n - 1) : s[i] >= s[i + 1]}

Reversed(s) == [i \in 1..Len(s) |-> s[Len(s) + 1 - i]] \o <<>>

TopKArgs == {None, 1, MaxTopK}
ThresholdArgs == {None, 93}

NoCall == [op |-> "none"]

\* an index of n chunks: the first query ranks them in index order, the second in
\* the opposite order; chunk texts only matter to the reranker
InitIndex(scoreSet) ==
    \E n \in 0..MaxDocs : \E pattern \in ContentPatterns :
      \E srcs \in [1..n -> Sources] : \E scores \in SortedScores(n, scoreSet) :
        /\ n > 0 => srcs[1] = "a/x.md"
        /\ rerank <=> pattern[1] # C_MISC \/ pattern[2] # C_MISC
        /\ metadata = [i \in 1..n |->
                          [content |-> pattern[i],
                           metadata |-> [source |-> srcs[i], filename |-> "x.md",
                                        file_type |-> ".md"]]]
        /\ index = [q \in KnowledgeQueries |->
                       IF q = Q_PTO THEN scores ELSE Reversed(scores)]

InitRetriever ==
    /\ rerank \in BOOLEAN
    /\ edge_case_min_score \in {0, 90}
    /\ similarity_threshold = 75
    /\ top_k = 5
    /\ max_context_length = 5000
    /\ InitIndex(RawScores)
    /\ seen_sources = {}
    /\ last = NoCall
    /\ pinned = NoCall
    /\ disk = Saved(index, metadata, 1)

\* one call of Retriever.retrieve
RetrieveCall(query, top_k_arg, threshold_arg, embed_ok, search_ok) ==
    LET out == retrieve(query, top_k_arg, threshold_arg, embed_ok, search_ok)
    IN  /\ search_ok \in SearchOutcomes(EffectiveTopK(top_k_arg) * 3)
        /\ last' = [op |-> "retrieve", query |-> query, top_k_arg |-> top_k_arg,
                    threshold_arg |-> threshold_arg, out |-> out]
        /\ seen_sources' = out.seen
        /\ UNCHANGED <<loaded, disk>>

Retrieve(query, top_k_arg, threshold_arg, search_ok) ==
    /\ RetrieveCall(query, top_k_arg, threshold_arg, TRUE, search_ok)
    /\ UNCHANGED pinned

NextRetriever ==
    \E query \in KnowledgeQueries, top_k_arg \in TopKArgs, threshold_arg \in ThresholdArgs,
       search_ok \in BOOLEAN :
        Retrieve(query, top_k_arg, threshold_arg, search_ok)

SpecRetriever == InitRetriever /\ [][NextRetriever]_vars

SameArgs(c, d) ==
    /\ c.query = d.query
    /\ c.top_k_arg = d.top_k_arg
    /\ c.threshold_arg = d.threshold_arg

\* a call of retrieve against the unchanged index with a deterministic embedding
\* function; the first call is remembered, and whether a different call followed it
RetrieveAgain(query, top_k_arg, threshold_arg) ==
    /\ RetrieveCall(query, top_k_arg, threshold_arg, TRUE, TRUE)
    /\ pinned' = IF pinned = NoCall
                 THEN [op |-> "retrieve", call |-> last', other |-> FALSE]
                 ELSE [pinned EXCEPT !.other = @ \/ ~SameArgs(last', pinned.call)]

InitRepeat ==
    /\ rerank \in BOOLEAN
    /\ edge_case_min_score = 90
    /\ similarity_threshold = 75
    /\ top_k = 5
    /\ max_context_length = 5000
    /\ InitIndex({88, 95})
    /\ seen_sources = {}
    /\ last = NoCall
    /\ pinned = NoCall
    /\ disk = Saved(index, metadata, 1)

NextRepeat ==
    \E query \in KnowledgeQueries, top_k_arg \in TopKArgs, threshold_arg \in ThresholdArgs :
        RetrieveAgain(query, top_k_arg, threshold_arg)

SpecRepeat == InitRepeat /\ [][NextRepeat]_vars

(***************************************************************************)
(* RAGPipeline.                                                            *)
(***************************************************************************)
greeting_patterns == <<
    <<"h","i">>,
    <<"h","e","l","l","o">>,
    <<"h","e","y">>,
    <<"g","r","e","e","t","i","n","g","s">>,
    <<"g","o","o","d"," ","m","o","r","n","i","n","g">>,
    <<"g","o","o","d"," ","a","f","t","e","r","n","o","o","n">>,
    <<"g","o","o","d"," ","e","v","e","n","i","n","g">>,
    <<"h","o","w","d","y">>,
    <<"w","h","a","t","'","s"," ","u","p">>,
    <<"w","h","a","t","s"," ","u","p">>,
    <<"s","u","p">>,
    <<"y","o">> >>

intro_patterns == <<
    <<"w","h","o"," ","a","r","e"," ","y","o","u">>,
    <<"w","h","a","t"," ","a","r","e"," ","y","o","u">>,
    <<"w","h","a","t"," ","c","a","n"," ","y","o","u"," ","d","o">>,
    <<"w","h","a","t"," ","d","o"," ","y","o","u"," ","d","o">>,
    <<"t","e","l","l"," ","m","e"," ","a","b","o","u","t"," ","y","o","u","r","s","e","l","f">>,
    <<"i","n","t","r","o","d","u","c","e"," ","y","o","u","r","s","e","l","f">>,
    <<"y","o","u","r"," ","c","a","p","a","b","i","l","i","t","i","e","s">>,
    <<"h","e","l","p"," ","m","e">>,
    <<"w","h","a","t"," ","i","s"," ","t","h","i","s">>,
    <<"h","o","w"," ","d","o","e","s"," ","t","h","i","s"," ","w","o","r","k">> >>

Range(seq) == {seq[i] : i \in 1..Len(seq)}

\* the greeting test without the startswith alternative
GreetingExactOnly(question) == Lower(Strip(question)) \in Range(greeting_patterns)
\* RAGPipeline._is_greeting
_is_greeting(question) ==
    LET question_lower == Strip(Lower(question))
    IN  \/ question_lower \in Range(greeting_patterns)
        \/ \E g \in Range(greeting_patterns) : StartsWith(question_lower, g)

\* RAGPipeline._is_intro_request
_is_intro_request(question) ==
    LET question_lower == Strip(Lower(question))
    IN  \E pattern \in Range(intro_patterns) : Contains(question_lower, pattern)

\* the texts the pipeline answers with, named; TextOf gives their characters
GREETING_RESPONSE == "_generate_greeting_response"
INTRO_RESPONSE == "_generate_intro_response"
NO_INFO == "no_info_answer"
A_PLAIN == "llm_plain"
A_OPINION == "llm_opinion"
A_DECLINE == "llm_decline"

NO_INFO_TEXT ==
    <<"I"," ","d","o","n","'","t"," ","h","a","v","e"," ","e","n","o","u","g","h"," ","i","n","f","o","r","m","a","t","i","o","n"," ","i","n"," ","t","h","e"," ","k","n","o","w","l","e","d","g","e"," ","b","a","s","e"," ","t","o"," ","a","n","s","w","e","r"," ","t","h","i","s"," ","q","u","e","s","t","i","o","n","."," ","C","o","u","l","d"," ","y","o","u"," ","t","r","y"," ","r","e","p","h","r","a","s","i","n","g"," ","o","r"," ","a","s","k"," ","s","o","m","e","t","h","i","n","g"," ","e","l","s","e"," ","a","b","o","u","t"," ","G","i","t","L","a","b","?">>
hallucination_indicators == <<
    <<"i","t"," ","i","s"," ","w","i","d","e","l","y"," ","k","n","o","w","n">>,
    <<"a","c","c","o","r","d","i","n","g"," ","t","o"," ","c","o","m","m","o","n"," ","k","n","o","w","l","e","d","g","e">>,
    <<"i","n"," ","m","y"," ","e","x","p","e","r","i","e","n","c","e">>,
    <<"a","s"," ","w","e"," ","a","l","l"," ","k","n","o","w">>,
    <<"e","v","e","r","y","o","n","e"," ","k","n","o","w","s">>,
    <<"i"," ","t","h","i","n","k">>,
    <<"i"," ","b","e","l","i","e","v","e">>,
    <<"i","n"," ","m","y"," ","o","p","i","n","i","o","n">> >>

A_PLAIN_TEXT == <<"P","T","O"," ","i","s"," ","f","l","e","x","i","b","l","e",".">>
A_OPINION_TEXT == <<"I"," ","t","h","i","n","k"," ","P","T","O"," ","i","s"," ","f","l","e","x","i","b","l","e",".">>
A_DECLINE_TEXT == <<"I"," ","d","o","n","'","t"," ","h","a","v","e"," ","e","n","o","u","g","h"," ","i","n","f","o","r","m","a","t","i","o","n"," ","i","n"," ","t","h","e"," ","k","n","o","w","l","e","d","g","e"," ","b","a","s","e"," ","t","o"," ","a","n","s","w","e","r"," ","t","h","i","s"," ","q","u","e","s","t","i","o","n",".">>

A_GROUNDED == "llm_grounded"
A_UNGROUNDED == "llm_ungrounded"
A_STEPS == "llm_steps"
A_EMPTY == "llm_empty"

A_GROUNDED_TEXT == <<"R","e","m","o","t","e"," ","w","o","r","k"," ","p","o","l","i","c","y"," ","c","o","v","e","r","s"," ","f","l","e","x","i","b","l","e"," ","s","c","h","e","d","u","l","e"," ","o","p","t","i","o","n","s"," ","f","o","r"," ","e","v","e","r","y"," ","e","m","p","l","o","y","e","e","."," ","T","h","a","n","k","s","!">>
A_UNGROUNDED_TEXT == <<"R","e","m","o","t","e"," ","w","o","r","k"," ","p","o","l","i","c","y"," ","o","f","f","e","r","s"," ","u","n","l","i","m","i","t","e","d"," ","v","a","c","a","t","i","o","n"," ","b","u","d","g","e","t"," ","b","o","n","u","s"," ","t","r","a","v","e","l","."," ","M","a","n","a","g","e","r","s"," ","d","e","c","i","d","e","!">>
A_STEPS_TEXT == <<"S","t","e","p","s",":","\n","1","."," ","O","p","e","n"," ","t","h","e"," ","r","e","m","o","t","e"," ","w","o","r","k"," ","p","o","l","i","c","y",".","\n","2","."," ","A","s","k"," ","y","o","u","r"," ","m","a","n","a","g","e","r",".">>

\* the completions of the generation service in this model
LLMAnswers == {A_PLAIN, A_OPINION, A_DECLINE}

TextOf(answer) ==
    CASE answer = NO_INFO -> NO_INFO_TEXT
      [] answer = A_PLAIN -> A_PLAIN_TEXT
      [] answer = A_OPINION -> A_OPINION_TEXT
      [] answer = A_DECLINE -> A_DECLINE_TEXT
      [] answer = A_GROUNDED -> A_GROUNDED_TEXT
      [] answer = A_UNGROUNDED -> A_UNGROUNDED_TEXT
      [] answer = A_STEPS -> A_STEPS_TEXT
      [] answer = A_EMPTY -> <<>>

\* RAGPipeline._answer_seems_unfaithful
_answer_seems_unfaithful(answer, retrieved_docs) ==
    LET answer_lower == Lower(TextOf(answer))
    IN  \E indicator \in Range(hallucination_indicators) : Contains(answer_lower, indicator)

\* the source list deduplicated by the source path instead of the filename
ExtractSourcesBySource(retrieved_docs, i, sources, seen) ==
    LET doc == retrieved_docs[i]
        source_id == Get(doc.metadata.source, "")
    IN  IF source_id \notin seen
        THEN [sources |-> Append(sources,
                             [filename |-> Get(doc.metadata.filename, "Unknown"),
                              source |-> Get(doc.metadata.source, ""),
                              file_type |-> Get(doc.metadata.file_type, ""),
                              relevance_score |-> doc.score]),
              seen |-> seen \cup {source_id}]
        ELSE [sources |-> sources, seen |-> seen]
\* one iteration of the loop of _extract_sources
ExtractSourcesStep(retrieved_docs, i, sources, seen) ==
    LET doc == retrieved_docs[i]
        source_id == Get(doc.metadata.filename, "Unknown")
    IN  IF source_id \notin seen
        THEN [sources |-> Append(sources,
                             [filename |-> Get(doc.metadata.filename, "Unknown"),
                              source |-> Get(doc.metadata.source, ""),
                              file_type |-> Get(doc.metadata.file_type, ""),
                              relevance_score |-> doc.score]),
              seen |-> seen \cup {source_id}]
        ELSE [sources |-> sources, seen |-> seen]

RECURSIVE ExtractSourcesFrom(_, _, _, _)
ExtractSourcesFrom(retrieved_docs, i, sources, seen) ==
    IF i > Len(retrieved_docs) THEN sources
    ELSE LET step == ExtractSourcesStep(retrieved_docs, i, sources, seen)
         IN  ExtractSourcesFrom(retrieved_docs, i + 1, step.sources, step.seen)

\* sources only for the documents whose metadata names a file
SourcesOfNamedFiles(retrieved_docs) ==
    SelectSeq(ExtractSourcesFrom(retrieved_docs, 1, <<>>, {}),
              LAMBDA source : source.filename # "Unknown")
\* RAGPipeline._extract_sources
_extract_sources(retrieved_docs) == ExtractSourcesFrom(retrieved_docs, 1, <<>>, {})

\* the score of the last retrieved document in place of the best one
LastScore(retrieved_docs) == retrieved_docs[Len(retrieved_docs)].score
\* max(doc.get("score", 0.0) for doc in retrieved_docs), of a non-empty list
BestScore(retrieved_docs) ==
    LET i == CHOOSE i \in 1..Len(retrieved_docs) :
                 \A j \in 1..Len(retrieved_docs) : retrieved_docs[i].score >= retrieved_docs[j].score
    IN  retrieved_docs[i].score

\* the empty-retrieval test that never holds
NeverEmpty(retrieved_docs) == FALSE
\* if not retrieved_docs
NoDocs(retrieved_docs) == retrieved_docs = <<>>

\* the check enforced: an answer found unfaithful is replaced by the no-information reply
RejectedWhenUnfaithful(answer, unfaithful) == IF unfaithful THEN NO_INFO ELSE answer
\* if self._answer_seems_unfaithful(answer, retrieved_docs): two log lines; the answer
\* that goes into the returned record is the completion
AfterFaithfulnessCheck(answer, unfaithful) == answer

\* RAGPipeline.query; embed_ok, search_ok and llm are the outcomes of the embedding call,
\* of index.search and of the generation call (llm is a completion, or LLMFails)
LLMFails == "llm_fails"
query(question, chat_history, top_k_arg, embed_ok, search_ok, llm) ==
    LET record == [raised |-> FALSE, error |-> "", answer |-> "", sources |-> <<>>, retrieved_docs |-> <<>>,
                   is_greeting |-> FALSE, is_intro |-> FALSE, path |-> "",
                   embed_calls |-> 0, search_calls |-> 0, gen_calls |-> 0,
                   retrieve_returned |-> FALSE, retrieved |-> <<>>, completion |-> "",
                   unfaithful |-> FALSE]
    IN  IF _is_greeting(question)
        THEN [record EXCEPT !.answer = GREETING_RESPONSE, !.is_greeting = TRUE,
                            !.path = "greeting"]
        ELSE IF _is_intro_request(question)
        THEN [record EXCEPT !.answer = INTRO_RESPONSE, !.is_intro = TRUE, !.path = "intro"]
        ELSE LET retrieval == retrieve(question, top_k_arg, None, embed_ok, search_ok)
                 called == [record EXCEPT !.embed_calls = retrieval.embed_calls,
                                          !.search_calls = retrieval.search_calls,
                                          !.retrieve_returned = ~retrieval.raised,
                                          !.retrieved = retrieval.results]
                 retrieved_docs == retrieval.results
             IN  IF retrieval.raised
                 THEN [called EXCEPT !.raised = TRUE, !.error = retrieval.error,
                                     !.path = "raised"]
                 ELSE IF NoDocs(retrieved_docs)
                 THEN [called EXCEPT !.answer = NO_INFO, !.path = "no_info"]
                 ELSE IF retrieved_docs = <<>>
                 THEN [called EXCEPT !.raised = TRUE, !.error = "ValueError", !.path = "raised"]
                 ELSE IF BestScore(retrieved_docs) < edge_case_min_score
                 THEN [called EXCEPT !.answer = NO_INFO, !.path = "low_relevance"]
                 ELSE IF llm = LLMFails
                 THEN [called EXCEPT !.gen_calls = 1, !.raised = TRUE,
                                     !.error = "OpenAIError", !.path = "raised"]
                 ELSE [called EXCEPT !.gen_calls = 1,
                                     !.completion = llm,
                                     !.answer = AfterFaithfulnessCheck(
                                         llm, _answer_seems_unfaithful(llm, retrieved_docs)),
                                     !.sources = _extract_sources(retrieved_docs),
                                     !.retrieved_docs = retrieved_docs,
                                     !.unfaithful = _answer_seems_unfaithful(llm, retrieved_docs),
                                     !.path = "generated"]

(***************************************************************************)
(* Inputs of the pipeline model.                                           *)
(***************************************************************************)
Q_HELLO == <<"h","e","l","l","o">>
Q_HI_THERE == <<" "," ","H","i"," ","t","h","e","r","e">>
Q_WHO == <<"W","h","o"," ","a","r","e"," ","y","o","u","?">>
Q_BOTH == <<"h","e","y",","," ","w","h","a","t"," ","c","a","n"," ","y","o","u"," ","d","o">>

Questions == {Q_HELLO, Q_HI_THERE, Q_WHO, Q_BOTH, Q_PTO}

\* chunk metadata of the pipeline's index, used in rotation: two sources with one
\* filename, a third source, and a chunk without a filename
MetaPool == <<
    [source |-> "a/x.md", filename |-> "x.md", file_type |-> ".md"],
    [source |-> "b/y.md", filename |-> "y.md", file_type |-> ".md"],
    [source |-> "b/x.md", filename |-> "x.md", file_type |-> ".md"],
    [source |-> "c/z.md", filename |-> Missing, file_type |-> Missing] >>

PipelineScores == {60, 78, 95}

InitPipeline ==
    /\ rerank \in BOOLEAN
    /\ edge_case_min_score = 80
    /\ similarity_threshold = 75
    /\ top_k = 5
    /\ max_context_length = 5000
    /\ \E n \in 0..MaxDocs : \E offset \in 0..(Len(MetaPool) - 1) :
         \E scores \in SortedScores(n, PipelineScores) :
           /\ metadata = [i \in 1..n |->
                             [content |-> IF i % 2 = 0 THEN C_PTO ELSE C_MISC,
                              metadata |-> MetaPool[((offset + i - 1) % Len(MetaPool)) + 1]]]
           /\ index = [q \in KnowledgeQueries |-> scores]
    /\ seen_sources = {}
    /\ last = NoCall
    /\ pinned = NoCall
    /\ disk = Saved(index, metadata, 1)

\* one call of RAGPipeline.query; embed_ok is kept as FALSE when the query made an
\* embedding call and the call failed
Query(question, top_k_arg, embed_ok, search_ok, llm) ==
    LET out == query(question, NoHistory, top_k_arg, embed_ok, search_ok, llm)
    IN  /\ search_ok \in SearchOutcomes(EffectiveTopK(top_k_arg) * 3)
        /\ last' = [op |-> "query", question |-> question, top_k_arg |-> top_k_arg,
                    embed_ok |-> embed_ok \/ out.embed_calls = 0, out |-> out]
        /\ UNCHANGED <<loaded, disk, seen_sources, pinned>>

NextPipeline ==
    \E question \in Questions, top_k_arg \in {None, 1, 0, -1}, embed_ok \in BOOLEAN,
       search_ok \in BOOLEAN, llm \in LLMAnswers \cup {LLMFails} :
        Query(question, top_k_arg, embed_ok, search_ok, llm)

SpecPipeline == InitPipeline /\ [][NextPipeline]_vars

(***************************************************************************)
(* PromptBuilder and the prompt templates.                                 *)
(***************************************************************************)
\* the text of the templates before {context}
TEMPLATE_HEAD ==
    <<"C","o","n","t","e","x","t"," ","i","n","f","o","r","m","a","t","i","o","n"," ","i",
      "s"," ","b","e","l","o","w",":","\n","-","-","-","-","-","-","-","-","-","-","-","-",
      "-","-","-","-","-","-","-","-","-","\n">>
\* QUERY_PROMPT_TEMPLATE between {context} and {question}
QUERY_TEMPLATE_MIDDLE ==
    <<"\n","-","-","-","-","-","-","-","-","-","-","-","-","-","-","-","-","-","-","-","-",
      "-","\n","\n","G","i","v","e","n"," ","t","h","e"," ","c","o","n","t","e","x","t"," ",
      "i","n","f","o","r","m","a","t","i","o","n"," ","a","b","o","v","e",","," ","p","l",
      "e","a","s","e"," ","a","n","s","w","e","r"," ","t","h","e"," ","f","o","l","l","o",
      "w","i","n","g"," ","q","u","e","s","t","i","o","n"," ","T","H","O","R","O","U","G",
      "H","L","Y"," ","a","n","d"," ","C","O","M","P","L","E","T","E","L","Y",".","\n","\n",
      "D","O"," ","N","O","T"," ","i","n","c","l","u","d","e"," ","s","o","u","r","c","e",
      " ","f","i","l","e","n","a","m","e","s"," ","i","n"," ","y","o","u","r"," ","a","n",
      "s","w","e","r"," ","-"," ","s","o","u","r","c","e","s"," ","w","i","l","l"," ","b",
      "e"," ","d","i","s","p","l","a","y","e","d"," ","s","e","p","a","r","a","t","e","l",
      "y",".","\n","\n","Q","u","e","s","t","i","o","n",":"," ">>
\* CHAT_PROMPT_TEMPLATE between {context} and {chat_history}
CHAT_TEMPLATE_MIDDLE ==
    <<"\n","-","-","-","-","-","-","-","-","-","-","-","-","-","-","-","-","-","-","-","-",
      "-","\n","\n","C","h","a","t"," ","H","i","s","t","o","r","y",":","\n">>
\* CHAT_PROMPT_TEMPLATE between {chat_history} and {question}
CHAT_TEMPLATE_QUESTION ==
    <<"\n","\n","G","i","v","e","n"," ","t","h","e"," ","c","o","n","t","e","x","t"," ","i",
      "n","f","o","r","m","a","t","i","o","n"," ","a","n","d"," ","c","h","a","t"," ","h",
      "i","s","t","o","r","y"," ","a","b","o","v","e",","," ","p","l","e","a","s","e"," ",
      "a","n","s","w","e","r"," ","t","h","e"," ","f","o","l","l","o","w","i","n","g"," ",
      "q","u","e","s","t","i","o","n",".","\n","I","f"," ","y","o","u"," ","c","a","n","n",
      "o","t"," ","a","n","s","w","e","r"," ","b","a","s","e","d"," ","o","n"," ","t","h",
      "e"," ","c","o","n","t","e","x","t",","," ","s","a","y"," ","s","o"," ","c","l","e",
      "a","r","l","y",".","\n","\n","Q","u","e","s","t","i","o","n",":"," ">>
\* the text of the templates after {question}
TEMPLATE_TAIL ==
    <<"\n","\n","A","n","s","w","e","r",":"," ">>
\* "\n...(truncated)"
TRUNCATION_MARKER ==
    <<"\n",".",".",".","(","t","r","u","n","c","a","t","e","d",")">>
NO_PREVIOUS_CONVERSATION ==
    <<"N","o"," ","p","r","e","v","i","o","u","s"," ","c","o","n","v","e","r","s","a","t",
      "i","o","n",".">>

Digits == <<"0","1","2","3","4","5","6","7","8","9">>

\* str(i) of a natural number
RECURSIVE Decimal(_)
Decimal(i) == IF i < 10 THEN <<Digits[i + 1]>> ELSE Decimal(i \div 10) \o <<Digits[(i % 10) + 1]>>

\* f"{score:.2f}" of a score in hundredths
TwoDecimals(score) ==
    Decimal(score \div 100) \o <<".", Digits[((score % 100) \div 10) + 1], Digits[(score % 10) + 1]>>

\* the characters of a filename
FilenameText(filename) ==
    CASE filename = "x.md" -> <<"x",".","m","d">>
      [] filename = "y.md" -> <<"y",".","m","d">>
      [] filename = "Unknown" -> <<"U","n","k","n","o","w","n">>

\* "\n".join(parts)
RECURSIVE Join(_)
Join(parts) ==
    IF parts = <<>> THEN <<>>
    ELSE IF Len(parts) = 1 THEN parts[1]
    ELSE parts[1] \o <<"\n">> \o Join(Tail(parts))

\* f"[Source {i}: {source} (relevance: {score:.2f})]\n{content}\n"
ContextPart(i, doc) ==
    <<"[","S","o","u","r","c","e"," ">> \o Decimal(i) \o <<":"," ">>
        \o FilenameText(Get(doc.metadata.filename, "Unknown"))
        \o <<" ","(","r","e","l","e","v","a","n","c","e",":"," ">> \o TwoDecimals(doc.score)
        \o <<")","]","\n">> \o doc.content \o <<"\n">>

\* prompts.format_context
format_context(retrieved_docs) ==
    Join([i \in 1..Len(retrieved_docs) |-> ContextPart(i, retrieved_docs[i])] \o <<>>)

\* str.capitalize(): the first character in upper case, the rest in lower case
Upper(c) == IF \E u \in DOMAIN UpperMap : UpperMap[u] = c
            THEN CHOOSE u \in DOMAIN UpperMap : UpperMap[u] = c ELSE c
Capitalize(s) == IF s = <<>> THEN <<>> ELSE <<Upper(s[1])>> \o Lower(Tail(s))

ROLE_USER == <<"u","s","e","r">>
ROLE_ASSISTANT == <<"a","s","s","i","s","t","a","n","t">>

\* chat_history[:5]: the first five messages
FirstFive(chat_history) == SubSeq(chat_history, 1, Min(5, Len(chat_history)))
\* chat_history[-5:]
LastFive(chat_history) ==
    SubSeq(chat_history, Max(1, Len(chat_history) - 4), Len(chat_history))

\* f"{role.capitalize()}: {content}"
HistoryLine(msg) == Capitalize(msg.role) \o <<":"," ">> \o msg.content

\* prompts.format_chat_history
format_chat_history(chat_history) ==
    IF chat_history = <<>> THEN NO_PREVIOUS_CONVERSATION
    ELSE LET turns == LastFive(chat_history)
         IN  Join([i \in 1..Len(turns) |-> HistoryLine(turns[i])] \o <<>>)

\* the length test of the truncation with >= in place of >
TooLongOrEqual(context) == Len(context) >= max_context_length
\* if len(context) > self.max_context_length
TooLong(context) == Len(context) > max_context_length

\* context[: self.max_context_length] + "\n...(truncated)"
Truncated(context) == SubSeq(context, 1, max_context_length) \o TRUNCATION_MARKER

\* PromptBuilder.build_prompt
build_prompt(question, retrieved_docs, chat_history) ==
    LET formatted == format_context(retrieved_docs)
        context == IF TooLong(formatted) THEN Truncated(formatted) ELSE formatted
    IN  IF chat_history.given /\ chat_history.turns # <<>>
        THEN TEMPLATE_HEAD \o context \o CHAT_TEMPLATE_MIDDLE
                 \o format_chat_history(chat_history.turns)
                 \o CHAT_TEMPLATE_QUESTION \o question \o TEMPLATE_TAIL
        ELSE TEMPLATE_HEAD \o context \o QUERY_TEMPLATE_MIDDLE \o question \o TEMPLATE_TAIL

(***************************************************************************)
(* Inputs of the prompt model.                                             *)
(***************************************************************************)
DOC_X == [content |-> C_MISC, metadata |-> MetaPool[1], score |-> 95]
DOC_Y == [content |-> C_REMOTE, metadata |-> MetaPool[2], score |-> 100]
DOC_Z == [content |-> C_MISC, metadata |-> MetaPool[4], score |-> 78]

\* lists of retrieved documents, of up to MaxPromptDocs entries
MaxPromptDocs == 2
RetrievedLists ==
    UNION {[1..n -> {DOC_X, DOC_Y, DOC_Z}] : n \in 0..MaxPromptDocs}

TURN_USER == [role |-> ROLE_USER, content |-> <<"h","i">>]
TURN_ASSISTANT == [role |-> ROLE_ASSISTANT, content |-> <<"O","K",".">>]

ROLE_SYSTEM == <<"S","Y","S","T","E","M">>

\* the i-th turn of a conversation: "hi", "OK.", and then turns whose content is their
\* number, with the roles user, assistant and SYSTEM in rotation
TurnAt(i) ==
    IF i = 1 THEN TURN_USER
    ELSE IF i = 2 THEN TURN_ASSISTANT
    ELSE [role |-> IF i % 3 = 1 THEN ROLE_USER
                   ELSE IF i % 3 = 2 THEN ROLE_ASSISTANT ELSE ROLE_SYSTEM,
          content |-> Decimal(i)]

\* chat histories of up to MaxTurns turns, and no history
MaxTurns == 6
ChatHistories ==
    {NoHistory} \cup {History([i \in 1..n |-> TurnAt(i)] \o <<>>) : n \in 0..MaxTurns}

\* the context of one document has 40 characters
ContextLengths == {0, 39, 40, 45, 5000}

InitPrompt ==
    /\ rerank = FALSE
    /\ edge_case_min_score = 80
    /\ similarity_threshold = 75
    /\ top_k = 5
    /\ max_context_length \in ContextLengths
    /\ metadata = <<>>
    /\ index = [q \in KnowledgeQueries |-> <<>>]
    /\ seen_sources = {}
    /\ last = NoCall
    /\ pinned = NoCall
    /\ disk = Saved(index, metadata, 1)

\* one call of PromptBuilder.build_prompt
BuildPrompt(question, retrieved_docs, chat_history) ==
    /\ last' = [op |-> "build_prompt", question |-> question,
                retrieved_docs |-> retrieved_docs, chat_history |-> chat_history,
                out |-> [prompt |-> build_prompt(question, retrieved_docs, chat_history)]]
    /\ UNCHANGED <<loaded, disk, seen_sources, pinned>>

NextPrompt ==
    \E question \in {Q_PTO, Q_HELLO}, retrieved_docs \in RetrievedLists,
       chat_history \in ChatHistories :
        BuildPrompt(question, retrieved_docs, chat_history)

SpecPrompt == InitPrompt /\ [][NextPrompt]_vars

(***************************************************************************)
(* RAGMetrics.  A metric value is an exact fraction <<numerator,           *)
(* denominator>> in lowest terms, so that 0.30*r + 0.25*f + 0.25*rel +     *)
(* 0.20*c is computed without rounding.                                    *)
(***************************************************************************)
RECURSIVE GCD(_, _)
GCD(a, b) == IF b = 0 THEN a ELSE GCD(b, a % b)

Rat(n, d) == IF n = 0 THEN <<0, 1>> ELSE <<n \div GCD(n, d), d \div GCD(n, d)>>

RAdd(x, y) ==
    LET common == (x[2] \div GCD(x[2], y[2])) * y[2]
    IN  Rat(x[1] * (common \div x[2]) + y[1] * (common \div y[2]), common)

RMul(x, y) ==
    LET a == Rat(x[1], y[2])
        b == Rat(y[1], x[2])
    IN  Rat(a[1] * b[1], a[2] * b[2])

RLess(x, y) == x[1] * y[2] < y[1] * x[2]

RMin(x, y) == IF RLess(y, x) THEN y ELSE x

\* an optional list argument: absent (None) or a list
NoList == [given |-> FALSE, items |-> <<>>]
ListOf(items) == [given |-> TRUE, items |-> items]

\* the stop words used when NLTK is not installed
STOP_WORDS ==
    {<<"t","h","e">>, <<"a">>, <<"a","n">>, <<"a","n","d">>, <<"o","r">>, <<"b","u","t">>,
     <<"i","n">>, <<"o","n">>, <<"a","t">>, <<"t","o">>, <<"f","o","r">>, <<"o","f">>,
     <<"w","i","t","h">>, <<"b","y">>, <<"f","r","o","m">>, <<"a","s">>, <<"i","s">>,
     <<"w","a","s">>, <<"a","r","e">>, <<"b","e","e","n">>, <<"b","e">>, <<"h","a","v","e">>,
     <<"h","a","s">>, <<"h","a","d">>, <<"d","o">>, <<"d","o","e","s">>, <<"d","i","d">>,
     <<"w","i","l","l">>, <<"w","o","u","l","d">>, <<"s","h","o","u","l","d">>,
     <<"c","a","n">>, <<"c","o","u","l","d">>, <<"m","a","y">>, <<"m","i","g","h","t">>,
     <<"t","h","i","s">>, <<"t","h","a","t">>, <<"t","h","e","s","e">>, <<"t","h","o","s","e">>}

\* the extra stop words of _calculate_relevance
QUESTION_STOP_WORDS ==
    {<<"w","h","a","t">>, <<"w","h","e","n">>, <<"w","h","e","r","e">>,
     <<"w","h","i","c","h">>, <<"w","h","o">>, <<"h","o","w">>, <<"d","o","e","s">>,
     <<"g","i","t","l","a","b">>, <<"w","h","y">>, <<"w","h","o","s","e">>, <<"w","h","o","m">>}

\* no_info_phrases of _calculate_faithfulness
FAITHFULNESS_NO_INFO_PHRASES ==
    {
     <<"d","o","n","'","t"," ","h","a","v","e"," ","e","n","o","u","g","h"," ","i","n","f","o","r","m","a","t","i","o","n">>,
     <<"c","o","u","l","d","n","'","t"," ","f","i","n","d"," ","a","n","y"," ","r","e","l","e","v","a","n","t"," ","i","n","f","o","r","m","a","t","i","o","n">>,
     <<"c","a","n","n","o","t"," ","a","n","s","w","e","r">>,
     <<"n","o"," ","i","n","f","o","r","m","a","t","i","o","n"," ","a","v","a","i","l","a","b","l","e">>,
     <<"n","o","t"," ","f","o","u","n","d"," ","i","n">>,
     <<"i","'","m"," ","s","o","r","r","y",","," ","i"," ","c","o","u","l","d","n","'","t"," ","f","i","n","d">>}

\* no_info_phrases of _calculate_relevance and _calculate_completeness
NO_INFO_PHRASES ==
    {
     <<"d","o","n","'","t"," ","h","a","v","e"," ","e","n","o","u","g","h"," ","i","n","f","o","r","m","a","t","i","o","n">>,
     <<"c","o","u","l","d","n","'","t"," ","f","i","n","d"," ","a","n","y"," ","r","e","l","e","v","a","n","t"," ","i","n","f","o","r","m","a","t","i","o","n">>,
     <<"c","a","n","n","o","t"," ","a","n","s","w","e","r">>,
     <<"n","o"," ","i","n","f","o","r","m","a","t","i","o","n"," ","a","v","a","i","l","a","b","l","e">>}

\* the characters \w matches in lower-cased text
WordChars ==
    {"a","b","c","d","e","f","g","h","i","j","k","l","m","n","o","p","q","r","s","t",
     "u","v","w","x","y","z","0","1","2","3","4","5","6","7","8","9","_"}

\* the first position from i on where s has a character of chars (or not of chars, when
\* member is FALSE); Len(s) + 1 when there is none
NextPosition(s, i, chars, member) ==
    IF \E j \in i..Len(s) : (s[j] \in chars) = member
    THEN CHOOSE j \in i..Len(s) :
             /\ (s[j] \in chars) = member
             /\ \A k \in i..(j - 1) : (s[k] \in chars) # member
    ELSE Len(s) + 1

\* set(re.findall(r"\b\w+\b", s)): the maximal runs of word characters of s
RECURSIVE WordsFrom(_, _, _)
WordsFrom(s, i, words) ==
    LET start == NextPosition(s, i, WordChars, TRUE)
        end == NextPosition(s, start, WordChars, FALSE)
    IN  IF start > Len(s) THEN words
        ELSE WordsFrom(s, end, words \cup {SubSeq(s, start, end - 1)})

\* len(s.split()): the number of maximal runs of non-whitespace characters
WordCount(s) ==
    Cardinality({i \in 1..Len(s) : s[i] \notin Whitespace /\ (i = 1 \/ s[i - 1] \in Whitespace)})

\* s.count(p): the occurrences of p in s that do not overlap
RECURSIVE CountFrom(_, _, _)
CountFrom(s, p, i) ==
    LET matches == {j \in i..(Len(s) - Len(p) + 1) : SubSeq(s, j, j + Len(p) - 1) = p}
        first == CHOOSE j \in matches : \A k \in matches : j <= k
    IN  IF matches = {} THEN 0 ELSE 1 + CountFrom(s, p, first + Len(p))

Count(s, p) == CountFrom(s, p, 1)

\* RAGMetrics._split_into_sentences
RECURSIVE SentencesFrom(_, _, _)
SentencesFrom(text, i, sentences) ==
    LET stop == NextPosition(text, i, {".", "!", "?"}, TRUE)
        piece == Strip(SubSeq(text, i, stop - 1))
        closed == IF piece = <<>> THEN sentences ELSE Append(sentences, piece)
    IN  IF i > Len(text) THEN sentences ELSE SentencesFrom(text, stop + 1, closed)

_split_into_sentences(text) == SentencesFrom(text, 1, <<>>)

\* the normalisation with the top band mapped at slope 1 instead of 0.5
SteepTopBand(score) ==
    IF score >= 90 THEN 9300 + (score - 90) * 100
    ELSE IF score >= 85 THEN 8800 + (score - 85) * 100
    ELSE IF score >= 80 THEN 8200 + (score - 80) * 120
    ELSE IF score >= 75 THEN 7500 + (score - 75) * 140
    ELSE IF score >= 70 THEN 6500 + (score - 70) * 200
    ELSE score * 90
\* one score of _calculate_retrieval_score after its normalisation, in ten-thousandths
NormalizedRetrieval(score) ==
    IF score >= 90 THEN 9300 + (score - 90) * 50
    ELSE IF score >= 85 THEN 8800 + (score - 85) * 100
    ELSE IF score >= 80 THEN 8200 + (score - 80) * 120
    ELSE IF score >= 75 THEN 7500 + (score - 75) * 140
    ELSE IF score >= 70 THEN 6500 + (score - 70) * 200
    ELSE score * 90

RECURSIVE SumNormalized(_, _)
SumNormalized(retrieved_docs, i) ==
    IF i > Len(retrieved_docs) THEN 0
    ELSE NormalizedRetrieval(retrieved_docs[i].score) + SumNormalized(retrieved_docs, i + 1)

\* RAGMetrics._calculate_retrieval_score
_calculate_retrieval_score(retrieved_docs) ==
    IF retrieved_docs = <<>> THEN <<0, 1>>
    ELSE Rat(SumNormalized(retrieved_docs, 1), 10000 * Len(retrieved_docs))

\* RAGMetrics._extract_meaningful_words
_extract_meaningful_words(text) ==
    {word \in WordsFrom(Lower(text), 1, {}) : Len(word) > 3 /\ word \notin STOP_WORDS}

\* " ".join([doc.get("content", "") for doc in retrieved_docs])
RECURSIVE JoinedContent(_, _)
JoinedContent(retrieved_docs, i) ==
    IF i > Len(retrieved_docs) THEN <<>>
    ELSE (IF i = 1 THEN <<>> ELSE <<" ">>) \o retrieved_docs[i].content
         \o JoinedContent(retrieved_docs, i + 1)

\* what one sentence adds to grounded_count (in hundredths) and to weakly_grounded_count
SentenceCredit(sentence, context_meaningful_words) ==
    IF WordCount(sentence) < 5 THEN [grounded |-> 100, weak |-> 0]
    ELSE LET sentence_meaningful_words == _extract_meaningful_words(sentence)
             n == Cardinality(sentence_meaningful_words)
             k == Cardinality(sentence_meaningful_words \cap context_meaningful_words)
         IN  IF n = 0 THEN [grounded |-> 0, weak |-> 0]
             ELSE IF 100 * k >= 55 * n THEN [grounded |-> 100, weak |-> 0]
             ELSE IF 100 * k >= 45 * n THEN [grounded |-> 85, weak |-> 0]
             ELSE IF 100 * k >= 35 * n THEN [grounded |-> 65, weak |-> 0]
             ELSE IF 100 * k >= 25 * n THEN [grounded |-> 35, weak |-> 1]
             ELSE [grounded |-> 0, weak |-> 0]

RECURSIVE SumCredits(_, _, _)
SumCredits(answer_sentences, context_meaningful_words, i) ==
    IF i > Len(answer_sentences) THEN [grounded |-> 0, weak |-> 0]
    ELSE LET here == SentenceCredit(answer_sentences[i], context_meaningful_words)
             rest == SumCredits(answer_sentences, context_meaningful_words, i + 1)
         IN  [grounded |-> here.grounded + rest.grounded, weak |-> here.weak + rest.weak]

\* the early return of _calculate_faithfulness that skips the no-information test
EmptyIsUnfaithful(answer, retrieved_docs) == answer = <<>> \/ retrieved_docs = <<>>

\* RAGMetrics._calculate_faithfulness
_calculate_faithfulness(answer, retrieved_docs) ==
    IF EmptyIsUnfaithful(answer, retrieved_docs) THEN <<0, 1>>
    ELSE LET context == JoinedContent(retrieved_docs, 1)
             answer_lower == Lower(answer)
         IN  IF \E phrase \in FAITHFULNESS_NO_INFO_PHRASES : Contains(answer_lower, phrase)
             THEN (IF retrieved_docs = <<>>
                      \/ RLess(_calculate_retrieval_score(retrieved_docs), <<3, 10>>)
                   THEN <<1, 1>> ELSE <<4, 5>>)
             ELSE LET answer_sentences == _split_into_sentences(answer)
                      total_sentences == Len(answer_sentences)
                      counts == SumCredits(answer_sentences,
                                           _extract_meaningful_words(context), 1)
                      faithfulness_score == Rat(counts.grounded, 100 * total_sentences)
                  IN  IF answer_sentences = <<>> THEN <<1, 2>>
                      ELSE IF 4 * counts.weak > total_sentences
                           THEN RMul(faithfulness_score, <<85, 100>>)
                           ELSE faithfulness_score

\* the length factor of _calculate_relevance, in hundredths
LengthFactor(word_count) ==
    IF word_count >= 200 THEN 18
    ELSE IF word_count >= 100 THEN 15
    ELSE IF word_count >= 50 THEN 10
    ELSE 5

\* RAGMetrics._calculate_relevance
_calculate_relevance(question, answer) ==
    IF answer = <<>> \/ question = <<>> THEN <<0, 1>>
    ELSE LET answer_lower == Lower(answer)
             question_words == WordsFrom(Lower(question), 1, {})
             question_stop_words == STOP_WORDS \cup QUESTION_STOP_WORDS
             question_terms ==
                 {word \in question_words : Len(word) > 3 /\ word \notin question_stop_words}
             addressed_terms ==
                 Cardinality(question_terms \cap _extract_meaningful_words(answer))
         IN  IF \E phrase \in NO_INFO_PHRASES : Contains(answer_lower, phrase) THEN <<1, 1>>
             ELSE IF question_terms = {} THEN <<6, 10>>
             ELSE RMin(RAdd(Rat(addressed_terms * 78, Cardinality(question_terms) * 100),
                            Rat(LengthFactor(WordCount(answer)), 100)),
                       <<95, 100>>)

\* re.search(r"\d+\.", s) anchored at position i
RECURSIVE DigitsThenDot(_, _)
DigitsThenDot(s, i) ==
    /\ i + 1 <= Len(s)
    /\ s[i] \in {"0","1","2","3","4","5","6","7","8","9"}
    /\ (s[i + 1] = "." \/ DigitsThenDot(s, i + 1))

\* re.search(r"\n\d+\.|\n\*\*\d+\.", answer)
HasNumberedList(answer) ==
    \E i \in 1..Len(answer) :
        /\ answer[i] = "\n"
        /\ \/ DigitsThenDot(answer, i + 1)
           \/ /\ i + 2 <= Len(answer)
              /\ answer[i + 1] = "*"
              /\ answer[i + 2] = "*"
              /\ DigitsThenDot(answer, i + 3)

\* the structure bonus of _calculate_completeness, in hundredths
StructureBonus(answer) ==
    IF HasNumberedList(answer) THEN 12
    ELSE IF Count(answer, <<"\n", "-">>) >= 3 \/ Count(answer, <<"\n", "*">>) >= 3 THEN 8
    ELSE IF Count(answer, <<"\n", "\n">>) >= 2 THEN 5
    ELSE 0

\* the length score of _calculate_completeness, in hundredths
LengthScore(word_count) ==
    IF word_count >= 300 THEN 95
    ELSE IF word_count >= 200 THEN 88
    ELSE IF word_count >= 100 THEN 78
    ELSE IF word_count >= 50 THEN 60
    ELSE 40

\* keyword_score and topic_score: the share of the expected items the answer contains,
\* scaled by factor (in hundredths) when it is below floor (in hundredths)
CoverageScore(expected, answer_lower, floor, factor) ==
    LET found == Cardinality({i \in 1..Len(expected) : Contains(answer_lower, Lower(expected[i]))})
        share == Rat(found, Len(expected))
    IN  IF RLess(share, <<floor, 100>>) THEN RMul(share, <<factor, 100>>) ELSE share

RECURSIVE RSum(_, _)
RSum(values, i) == IF i > Len(values) THEN <<0, 1>> ELSE RAdd(values[i], RSum(values, i + 1))

\* RAGMetrics._calculate_completeness
_calculate_completeness(answer, expected_keywords, expected_topics) ==
    IF answer = <<>> THEN <<0, 1>>
    ELSE LET answer_lower == Lower(answer)
             scores ==
                 (IF expected_keywords.given /\ expected_keywords.items # <<>>
                  THEN <<CoverageScore(expected_keywords.items, answer_lower, 60, 85)>>
                  ELSE <<>>)
                 \o (IF expected_topics.given /\ expected_topics.items # <<>>
                     THEN <<CoverageScore(expected_topics.items, answer_lower, 65, 90)>>
                     ELSE <<>>)
                 \o <<Rat(LengthScore(WordCount(answer)), 100)>>
             base_score == RMul(RSum(scores, 1), <<1, Len(scores)>>)
         IN  IF \E phrase \in NO_INFO_PHRASES : Contains(answer_lower, phrase) THEN <<1, 1>>
             ELSE RMin(RAdd(base_score, Rat(StructureBonus(answer), 100)), <<95, 100>>)

\* all four weights equal
EqualWeights ==
    [retrieval_score |-> <<25, 100>>, faithfulness |-> <<25, 100>>,
     relevance |-> <<25, 100>>, completeness |-> <<25, 100>>]

\* the table weights of _calculate_overall_score
weights ==
    [retrieval_score |-> <<30, 100>>, faithfulness |-> <<25, 100>>,
     relevance |-> <<25, 100>>, completeness |-> <<20, 100>>]

\* RAGMetrics._calculate_overall_score
_calculate_overall_score(metrics) ==
    RAdd(RAdd(RMul(metrics.retrieval_score, weights.retrieval_score),
              RMul(metrics.faithfulness, weights.faithfulness)),
         RAdd(RMul(metrics.relevance, weights.relevance),
              RMul(metrics.completeness, weights.completeness)))

\* RAGMetrics.evaluate
evaluate(question, answer, retrieved_docs, expected_keywords, expected_topics) ==
    LET metrics ==
            [retrieval_score |-> _calculate_retrieval_score(retrieved_docs),
             faithfulness |-> _calculate_faithfulness(answer, retrieved_docs),
             relevance |-> _calculate_relevance(question, answer),
             completeness |-> _calculate_completeness(answer, expected_keywords, expected_topics)]
    IN  [retrieval_score |-> metrics.retrieval_score,
         faithfulness |-> metrics.faithfulness,
         relevance |-> metrics.relevance,
         completeness |-> metrics.completeness,
         overall |-> _calculate_overall_score(metrics)]

\* the test cases of the evaluation in this model
Q_POLICY == <<"W","h","a","t"," ","i","s"," ","t","h","e"," ","r","e","m","o","t","e"," ","w","o","r","k"," ","p","o","l","i","c","y","?">>
C_POLICY == <<"r","e","m","o","t","e"," ","w","o","r","k"," ","p","o","l","i","c","y"," ","c","o","v","e","r","s"," ","f","l","e","x","i","b","l","e"," ","s","c","h","e","d","u","l","e"," ","o","p","t","i","o","n","s">>
KW_POLICY == <<"p","o","l","i","c","y">>
KW_VACATION == <<"v","a","c","a","t","i","o","n">>
KW_SCHEDULE == <<"s","c","h","e","d","u","l","e">>

MetricQuestions == {Q_POLICY, Q_WHO, <<>>}
MetricAnswers == {A_PLAIN, A_DECLINE, A_GROUNDED, A_UNGROUNDED, A_STEPS, A_EMPTY}

\* retrieved documents, one for every band of _calculate_retrieval_score and one at
\* each end of the score range
MetricDocs ==
    {[content |-> C_POLICY, metadata |-> MetaPool[1], score |-> 100],
     [content |-> C_MISC, metadata |-> MetaPool[2], score |-> 0],
     [content |-> C_POLICY, metadata |-> MetaPool[1], score |-> 95],
     [content |-> C_POLICY, metadata |-> MetaPool[2], score |-> 87],
     [content |-> C_MISC, metadata |-> MetaPool[1], score |-> 82],
     [content |-> C_MISC, metadata |-> MetaPool[2], score |-> 77],
     [content |-> C_POLICY, metadata |-> MetaPool[3], score |-> 72],
     [content |-> C_MISC, metadata |-> MetaPool[3], score |-> 20]}

MaxMetricDocs == 2

MetricDocLists == UNION {[1..n -> MetricDocs] : n \in 0..MaxMetricDocs}

ExpectedKeywords == {NoList, ListOf(<<KW_POLICY, KW_VACATION>>)}
ExpectedTopics == {ListOf(<<>>), ListOf(<<KW_SCHEDULE>>)}

\* a test case is chosen and its answer and documents are at hand
InitMetrics ==
    /\ rerank = FALSE
    /\ edge_case_min_score = 80
    /\ similarity_threshold = 75
    /\ top_k = 5
    /\ max_context_length = 5000
    /\ metadata = <<>>
    /\ index = [q \in KnowledgeQueries |-> <<>>]
    /\ seen_sources = {}
    /\ \E question \in MetricQuestions, answer \in MetricAnswers,
          retrieved_docs \in MetricDocLists,
          expected_keywords \in ExpectedKeywords, expected_topics \in ExpectedTopics :
         last = [op |-> "test_case", question |-> question, answer |-> answer,
                 retrieved_docs |-> retrieved_docs,
                 expected_keywords |-> expected_keywords,
                 expected_topics |-> expected_topics]
    /\ pinned = NoCall
    /\ disk = Saved(index, metadata, 1)

\* the call of RAGMetrics.evaluate for the test case
Evaluate ==
    /\ last.op = "test_case"
    /\ last' = [last EXCEPT !.op = "evaluate"] @@
               [out |-> evaluate(last.question, TextOf(last.answer), last.retrieved_docs,
                                  last.expected_keywords, last.expected_topics)]
    /\ UNCHANGED <<loaded, disk, seen_sources, pinned>>

NextMetrics == Evaluate

SpecMetrics == InitMetrics /\ [][NextMetrics]_vars

(***************************************************************************)
(* Streaming: LLM.stream_generate and RAGPipeline.stream_query.  A stream  *)
(* of the generation service is the chunks it delivers (the delta content  *)
(* of each, "" when a chunk has none) and fails_after: None when the       *)
(* stream ends normally, or the number of chunks delivered before the      *)
(* service fails (0 when the request itself fails).  The generators are    *)
(* followed as a consumer drives them to their end: out.yielded is what    *)
(* the consumer received, in order, and out.raised whether the iteration   *)
(* ended with an exception instead of a normal end of stream.              *)
(***************************************************************************)
APOLOGY == "I'm sorry, I couldn't find any relevant information to answer your question."

\* f"Error: {str(e)}"
ErrorFragment(error) == "Error: " \o error

\* the chunks that arrive before the stream ends or fails
Arrived(stream) ==
    IF stream.fails_after = None THEN stream.chunks
    ELSE SubSeq(stream.chunks, 1, stream.fails_after)

\* if chunk.choices[0].delta.content: yield chunk.choices[0].delta.content
NonEmptyContent(content) == content # ""

\* for chunk in stream: the fragments yielded for the chunks that arrived
YieldedOf(stream) == SelectSeq(Arrived(stream), NonEmptyContent)

\* LLM.stream_generate, consumed to its end; its except clause raises again
stream_generate(stream) ==
    [yielded |-> YieldedOf(stream),
     raised |-> stream.fails_after # None,
     error |-> IF stream.fails_after # None THEN "OpenAIError" ELSE "",
     gen_calls |-> 1]

\* the empty-retrieval test of stream_query left out: the generation call follows
RetrievedSomething(retrieved_docs) == FALSE
\* if not retrieved_docs (in stream_query)
RetrievedNothing(retrieved_docs) == retrieved_docs = <<>>

\* RAGPipeline.stream_query, consumed to its end; its except clause yields
\* f"Error: {str(e)}" and ends the stream normally
stream_query(question, chat_history, top_k_arg, embed_ok, search_ok, stream) ==
    LET retrieval == retrieve(question, top_k_arg, None, embed_ok, search_ok)
        record == [yielded |-> <<>>, raised |-> FALSE, error |-> "",
                   embed_calls |-> retrieval.embed_calls,
                   search_calls |-> retrieval.search_calls, gen_calls |-> 0,
                   retrieve_returned |-> ~retrieval.raised,
                   retrieved |-> retrieval.results, path |-> ""]
    IN  IF retrieval.raised
        THEN [record EXCEPT !.yielded = <<ErrorFragment(retrieval.error)>>,
                            !.error = retrieval.error, !.path = "error"]
        ELSE IF RetrievedNothing(retrieval.results)
        THEN [record EXCEPT !.yielded = <<APOLOGY>>, !.path = "apology"]
        ELSE IF stream.fails_after # None
        THEN [record EXCEPT !.yielded = Append(YieldedOf(stream), ErrorFragment("OpenAIError")),
                            !.error = "OpenAIError", !.gen_calls = 1, !.path = "error"]
        ELSE [record EXCEPT !.yielded = YieldedOf(stream), !.gen_calls = 1,
                            !.path = "streamed"]

(***************************************************************************)
(* Inputs of the streaming model.                                          *)
(***************************************************************************)
MaxChunks == 3

\* the delta content of the i-th chunk of a stream: the first chunk carries the role and
\* no content
ChunkAt(i) == IF i % 3 = 1 THEN "" ELSE IF i % 3 = 2 THEN "Hel" ELSE "lo"

\* the streams of the generation service: up to MaxChunks chunks, ending normally or
\* failing after any number of them
Streams ==
    {[chunks |-> [i \in 1..n |-> ChunkAt(i)] \o <<>>, fails_after |-> fails_after] :
        n \in 0..MaxChunks, fails_after \in {None} \cup 0..MaxChunks}

StreamQuestions == {Q_PTO, Q_HELLO}

InitStream ==
    /\ rerank = FALSE
    /\ edge_case_min_score = 80
    /\ similarity_threshold = 75
    /\ top_k = 5
    /\ max_context_length = 5000
    /\ \E n \in 0..MaxDocs : \E scores \in SortedScores(n, PipelineScores) :
           /\ metadata = [i \in 1..n |->
                             [content |-> IF i % 2 = 0 THEN C_PTO ELSE C_MISC,
                              metadata |-> MetaPool[((i - 1) % Len(MetaPool)) + 1]]]
           /\ index = [q \in StreamQuestions |-> scores]
    /\ seen_sources = {}
    /\ last = NoCall
    /\ pinned = NoCall
    /\ disk = Saved(index, metadata, 1)

\* one call of RAGPipeline.stream_query whose generator is consumed to its end; the
\* outcome of a service call that was not made is kept as TRUE
StreamQuery(question, top_k_arg, embed_ok, search_ok, stream) ==
    LET out == stream_query(question, NoHistory, top_k_arg, embed_ok, search_ok, stream)
    IN  /\ search_ok \in SearchOutcomes(EffectiveTopK(top_k_arg) * 3)
        /\ stream.fails_after # None => stream.fails_after <= Len(stream.chunks)
        /\ last' = [op |-> "stream_query", question |-> question, top_k_arg |-> top_k_arg,
                    stream |-> stream, embed_ok |-> embed_ok \/ out.embed_calls = 0,
                    search_ok |-> search_ok \/ out.search_calls = 0, out |-> out]
        /\ UNCHANGED <<loaded, disk, seen_sources, pinned>>

\* one call of LLM.stream_generate whose generator is consumed to its end
StreamGenerate(stream) ==
    /\ stream.fails_after # None => stream.fails_after <= Len(stream.chunks)
    /\ last' = [op |-> "stream_generate", stream |-> stream, out |-> stream_generate(stream)]
    /\ UNCHANGED <<loaded, disk, seen_sources, pinned>>

NextStream ==
    \/ \E question \in StreamQuestions, top_k_arg \in {None, 1}, embed_ok \in BOOLEAN,
          search_ok \in BOOLEAN, stream \in Streams :
           StreamQuery(question, top_k_arg, embed_ok, search_ok, stream)
    \/ \E stream \in Streams : StreamGenerate(stream)

SpecStream == InitStream /\ [][NextStream]_vars

(***************************************************************************)
(* scripts/demo_evaluation.py: the evaluation run over the test questions. *)
(***************************************************************************)
greeting_categories == {"greeting", "introduction"}
edge_case_categories == {"edge_case", "impossible"}

COULD_NOT_FIND == <<"c","o","u","l","d","n","'","t"," ","f","i","n","d">>
DO_NOT_HAVE == <<"d","o","n","'","t"," ","h","a","v","e">>

\* result.get("answer", "")
AnswerOf(result) == IF "answer" \in DOMAIN result THEN result.answer ELSE ""

\* "couldn't find" in answer.lower() or "don't have" in answer.lower(); the greeting and
\* the introduction hold neither phrase
HandledAsEdgeCase(answer) ==
    IF answer \in {"", GREETING_RESPONSE, INTRO_RESPONSE} THEN FALSE
    ELSE LET answer_lower == Lower(TextOf(answer))
         IN  Contains(answer_lower, COULD_NOT_FIND) \/ Contains(answer_lower, DO_NOT_HAVE)

\* the metrics given to a greeting or an introduction
PresetMetrics ==
    [retrieval_score |-> <<1, 1>>, faithfulness |-> <<1, 1>>, relevance |-> <<1, 1>>,
     completeness |-> <<1, 1>>, overall |-> <<1, 1>>]

\* the member of a set of one value
TheOne(S) == CHOOSE x \in S : TRUE

\* the body of evaluate_query after its call of pipeline.query, which raised or
\* returned result
EvaluationOf(question, expected_keywords, expected_topics, result) ==
    LET retrieved_docs == result.retrieved_docs
    IN  IF result.raised
        THEN [question |-> question, error |-> result.error,
              metrics |-> [overall |-> <<0, 1>>]]
        ELSE [question |-> question,
              answer |-> result.answer,
              metrics |-> IF result.is_greeting \/ result.is_intro THEN PresetMetrics
                          ELSE evaluate(question, TextOf(result.answer), retrieved_docs,
                                        ListOf(expected_keywords.items),
                                        ListOf(expected_topics.items)),
              num_sources |-> Len(retrieved_docs),
              top_source_score |-> IF retrieved_docs # <<>> THEN retrieved_docs[1].score
                                   ELSE 0,
              is_greeting |-> result.is_greeting,
              is_intro |-> result.is_intro]

\* evaluate_query: one query of the pipeline with top_k = 5 and its metrics; embed_ok and
\* llm are what the two services do during the query
evaluate_query(question, expected_keywords, expected_topics, embed_ok, llm) ==
    TheOne({EvaluationOf(question, expected_keywords, expected_topics, result) :
                result \in {query(question, NoHistory, 5, embed_ok, TRUE, llm)}})

\* the metrics of an edge case that was answered with the no-information reply
EdgeCaseMetrics(metrics) ==
    [metrics EXCEPT !.faithfulness = <<1, 1>>, !.relevance = <<1, 1>>,
                    !.completeness = <<1, 1>>,
                    !.overall = RAdd(RMul(metrics.retrieval_score, <<25, 100>>),
                                     <<75, 100>>)]

\* the edge-case adjustment of the loop for the result of one test case
AdjustedResult(test_case, result) ==
    IF test_case.category \in edge_case_categories /\ HandledAsEdgeCase(AnswerOf(result))
    THEN [result EXCEPT !.metrics = EdgeCaseMetrics(result.metrics)]
    ELSE result

\* the body of the loop for one test case with a question
EvaluatedCase(test_case, service) ==
    TheOne({AdjustedResult(test_case, result) :
                result \in {evaluate_query(test_case.question, test_case.expected_keywords,
                                            test_case.expected_topics, service.embed_ok,
                                            service.llm)}})

\* the loop over the test cases: a case without a question (the key missing, or an
\* empty text) is skipped and appends nothing
RECURSIVE EvaluateCases(_, _, _)
EvaluateCases(test_questions, services, idx) ==
    IF idx > Len(test_questions) THEN <<>>
    ELSE IF test_questions[idx].question = <<>>
    THEN EvaluateCases(test_questions, services, idx + 1)
    ELSE <<EvaluatedCase(test_questions[idx], services[idx])>>
             \o EvaluateCases(test_questions, services, idx + 1)

\* results.index(r), counted from 1: the first position holding a result equal to r
IndexOf(results, r) ==
    CHOOSE i \in 1..Len(results) :
        results[i] = r /\ \A k \in 1..(i - 1) : results[k] # r

\* test_questions[results.index(r)].get("category")
CategoryFor(test_questions, results, r) == test_questions[IndexOf(results, r)].category

\* the positions in results of the results that a list comprehension keeps
Kept(results, Keeps(_)) == SelectSeq([j \in 1..Len(results) |-> j] \o <<>>, Keeps)

\* sum(r["metrics"].get(metric, 0) for r in main_results) / len(main_results)
RECURSIVE SumOf(_, _, _, _)
SumOf(results, positions, metric, i) ==
    IF i > Len(positions) THEN <<0, 1>>
    ELSE RAdd(results[positions[i]].metrics[metric], SumOf(results, positions, metric, i + 1))

Average(results, positions, metric) ==
    RMul(SumOf(results, positions, metric, 1), <<1, Len(positions)>>)

\* the share of the results at the positions that satisfy the test
Share(positions, Test(_)) ==
    Rat(Cardinality({i \in 1..Len(positions) : Test(positions[i])}), Len(positions))

\* min and max of a metric over the main results
Smallest(results, positions, metric) ==
    LET i == CHOOSE i \in 1..Len(positions) : \A k \in 1..Len(positions) :
                 ~RLess(results[positions[k]].metrics[metric],
                        results[positions[i]].metrics[metric])
    IN  results[positions[i]].metrics[metric]

Largest(results, positions, metric) ==
    LET i == CHOOSE i \in 1..Len(positions) : \A k \in 1..Len(positions) :
                 ~RLess(results[positions[i]].metrics[metric],
                        results[positions[k]].metrics[metric])
    IN  results[positions[i]].metrics[metric]

\* run_evaluation over the loaded test questions after its loop, which left results;
\* services[i] is what the services do during the query of test case i. The three result lists are given by the positions of
\* their members in results. The standard deviations of the variance analysis are left out.
ReportOf(test_questions, results) ==
    LET Valid(j) == "error" \notin DOMAIN results[j]
        InGreeting(j) ==
            Valid(j) /\ CategoryFor(test_questions, results, results[j]) \in greeting_categories
        InMain(j) ==
            /\ Valid(j)
            /\ CategoryFor(test_questions, results, results[j]) \notin greeting_categories
            /\ CategoryFor(test_questions, results, results[j]) \notin edge_case_categories
        InEdge(j) ==
            Valid(j) /\ CategoryFor(test_questions, results, results[j]) \in edge_case_categories
        greeting_results == Kept(results, InGreeting)
        main_results == Kept(results, InMain)
        edge_results == Kept(results, InEdge)
        Handled(j) == HandledAsEdgeCase(AnswerOf(results[j]))
        Greeted(j) == results[j].is_greeting \/ results[j].is_intro
        lists == [results |-> results, greeting_results |-> greeting_results,
                  main_results |-> main_results, edge_results |-> edge_results]
    IN  IF main_results = <<>>
        THEN lists @@ [error |-> "No valid evaluation results"]
        ELSE lists @@
             [summary |->
                 [avg_retrieval_score |-> Average(results, main_results, "retrieval_score"),
                  avg_faithfulness |-> Average(results, main_results, "faithfulness"),
                  avg_relevance |-> Average(results, main_results, "relevance"),
                  avg_completeness |-> Average(results, main_results, "completeness"),
                  avg_overall_score |-> Average(results, main_results, "overall"),
                  total_queries |-> Len(main_results),
                  edge_case_queries |-> Len(edge_results),
                  greeting_queries |-> Len(greeting_results)]
                 @@ (IF edge_results # <<>>
                     THEN [edge_case_handling |-> Share(edge_results, Handled),
                           edge_cases_tested |-> Len(edge_results)]
                     ELSE <<>>)
                 @@ (IF greeting_results # <<>>
                     THEN [greeting_handling |-> Share(greeting_results, Greeted),
                           greetings_tested |-> Len(greeting_results)]
                     ELSE <<>>)
                 @@ [variance_analysis |->
                        [faithfulness_min |-> Smallest(results, main_results, "faithfulness"),
                         faithfulness_max |-> Largest(results, main_results, "faithfulness"),
                         completeness_min |-> Smallest(results, main_results, "completeness"),
                         completeness_max |-> Largest(results, main_results, "completeness")]]]

run_evaluation(test_questions, services) ==
    TheOne({ReportOf(test_questions, results) :
                results \in {EvaluateCases(test_questions, services, 1)}})

\* the entries of tests/test_questions.json in this model, each with what the services
\* do during its query; an empty question stands for a missing or empty "question"
TestCase(question, category) ==
    [question |-> question, category |-> category,
     expected_keywords |-> ListOf(<<>>), expected_topics |-> ListOf(<<>>)]

ServicesUp(llm) == [embed_ok |-> TRUE, llm |-> llm]
EmbeddingDown == [embed_ok |-> FALSE, llm |-> A_PLAIN]

EvaluationCases ==
    {[test_case |-> TestCase(<<>>, "greeting"), service |-> ServicesUp(A_PLAIN)],
     [test_case |-> TestCase(Q_HELLO, "greeting"), service |-> ServicesUp(A_PLAIN)],
     [test_case |-> TestCase(Q_WHO, "introduction"), service |-> ServicesUp(A_PLAIN)],
     [test_case |-> TestCase(Q_PTO, "policy"), service |-> ServicesUp(A_PLAIN)],
     [test_case |-> TestCase(Q_PTO, "edge_case"), service |-> ServicesUp(A_PLAIN)],
     [test_case |-> TestCase(Q_REMOTE, "impossible"), service |-> ServicesUp(A_PLAIN)],
     [test_case |-> TestCase(Q_PTO, "policy"), service |-> EmbeddingDown],
     [test_case |-> TestCase(Q_PTO, Missing), service |-> ServicesUp(A_DECLINE)]}

MaxCases == 3

\* the pipeline over an index of two chunks that match the first knowledge query and not
\* the second, and a test suite at hand
InitEvaluation ==
    /\ rerank = FALSE
    /\ edge_case_min_score = 80
    /\ similarity_threshold = 75
    /\ top_k = 5
    /\ max_context_length = 5000
    /\ metadata = [i \in 1..2 |->
                      [content |-> IF i = 1 THEN C_PTO ELSE C_MISC, metadata |-> MetaPool[i]]]
    /\ index = [q \in KnowledgeQueries |-> IF q = Q_PTO THEN <<95, 78>> ELSE <<60, 50>>]
    /\ seen_sources = {}
    /\ \E n \in 0..MaxCases : \E cases \in [1..n -> EvaluationCases] :
         last = [op |-> "test_suite",
                 test_questions |-> [i \in 1..n |-> cases[i].test_case] \o <<>>,
                 services |-> [i \in 1..n |-> cases[i].service] \o <<>>]
    /\ pinned = NoCall
    /\ disk = Saved(index, metadata, 1)

\* one run of run_evaluation
RunEvaluation ==
    /\ last.op = "test_suite"
    /\ last' = [last EXCEPT !.op = "run_evaluation"] @@
               [out |-> run_evaluation(last.test_questions, last.services)]
    /\ UNCHANGED <<loaded, disk, seen_sources, pinned>>

NextEvaluation == RunEvaluation

SpecEvaluation == InitEvaluation /\ [][NextEvaluation]_vars

(***************************************************************************)
(* api/endpoints.py: the HTTP query endpoint.                              *)
(***************************************************************************)
\* str(e) of the exception that reaches the endpoint: a failing service raises with a
\* message of its own, the index search and max() raise with fixed texts
ExceptionText(error, message) ==
    IF error = "OpenAIError" THEN message
    ELSE IF error = "ValueError" THEN "max() arg is an empty sequence"
    ELSE ""

\* the Source entries built from result["retrieved_docs"]
ResponseSources(retrieved_docs) ==
    [i \in 1..Len(retrieved_docs) |->
        [content |-> retrieved_docs[i].content,
         source |-> Get(retrieved_docs[i].metadata.source, "Unknown"),
         score |-> retrieved_docs[i].score,
         metadata |-> retrieved_docs[i].metadata]] \o <<>>

\* detail=f"Error processing query: {str(e)}"
ErrorDetail(text) == "Error processing query: " \o text

\* the response of the endpoint after rag_pipeline.query raised or returned result
ResponseOf(result, message) ==
    IF result.raised
    THEN [status |-> 500,
          detail |-> ErrorDetail(ExceptionText(result.error, message)),
          logged |-> <<"Processing query", "Error in RAG pipeline", "Error processing query">>]
    ELSE [status |-> 200,
          answer |-> result.answer,
          sources |-> ResponseSources(result.retrieved_docs),
          logged |-> <<"Processing query", "Query completed">>]

\* query_knowledge_base: POST /query. rag_pipeline_ready says whether the pipeline was
\* constructed at import; embed_ok, search_ok and llm are what the services do during
\* the request, message the text a failing service raises with
query_knowledge_base(rag_pipeline_ready, question, max_sources, embed_ok, search_ok,
                     llm, message) ==
    IF ~rag_pipeline_ready
    THEN [status |-> 503, detail |-> "RAG pipeline not initialized", logged |-> <<>>]
    ELSE TheOne({ResponseOf(result, message) :
                    result \in {query(question, NoHistory, max_sources, embed_ok,
                                      search_ok, llm)}})

\* texts that the embedding and generation services raise with
ServiceMessages ==
    {"Incorrect API key provided: sk-proj-1234", "Connection error."}

ApiQuestions == {Q_HELLO, Q_WHO, Q_PTO, Q_REMOTE}

\* the pipeline over an index of up to two chunks that match the first knowledge query
\* and not the second
InitApi ==
    /\ rerank = FALSE
    /\ edge_case_min_score = 80
    /\ similarity_threshold = 75
    /\ top_k = 5
    /\ max_context_length = 5000
    /\ \E n \in 0..2 :
         /\ metadata = [i \in 1..n |->
                           [content |-> IF i = 1 THEN C_PTO ELSE C_MISC,
                            metadata |-> MetaPool[i]]]
         /\ index = [q \in KnowledgeQueries |->
                        SubSeq(IF q = Q_PTO THEN <<95, 78>> ELSE <<60, 50>>, 1, n)]
    /\ seen_sources = {}
    /\ last = NoCall
    /\ pinned = NoCall
    /\ disk = Saved(index, metadata, 1)

\* one request to POST /query
QueryKnowledgeBase(rag_pipeline_ready, question, max_sources, embed_ok, search_ok, llm,
                   message) ==
    /\ search_ok \in SearchOutcomes(EffectiveTopK(max_sources) * 3)
    /\ last' = [op |-> "query_knowledge_base", rag_pipeline_ready |-> rag_pipeline_ready,
                question |-> question, max_sources |-> max_sources,
                embed_ok |-> embed_ok, search_ok |-> search_ok, llm |-> llm,
                message |-> message,
                out |-> query_knowledge_base(rag_pipeline_ready, question, max_sources,
                                             embed_ok, search_ok, llm, message)]
    /\ UNCHANGED <<loaded, disk, seen_sources, pinned>>

NextApi ==
    \E rag_pipeline_ready \in BOOLEAN, question \in ApiQuestions,
       max_sources \in {None, 3, 0}, embed_ok \in BOOLEAN, search_ok \in BOOLEAN,
       llm \in {A_PLAIN, A_DECLINE, LLMFails}, message \in ServiceMessages :
        QueryKnowledgeBase(rag_pipeline_ready, question, max_sources, embed_ok, search_ok,
                           llm, message)

SpecApi == InitApi /\ [][NextApi]_vars

(***************************************************************************)
(* Construction of the Retriever over the artifacts found on disk.         *)
(***************************************************************************)
MaxStored == 3

\* the inner products of the stored vectors with the first query, best first
StoredProducts == [i \in 1..MaxStored |-> 95 - 8 * (i - 1)] \o <<>>

\* an index file of n vectors and a metadata file of m entries
IndexOfSize(n) ==
    [q \in KnowledgeQueries |->
        IF q = Q_PTO THEN SubSeq(StoredProducts, 1, n)
        ELSE Reversed(SubSeq(StoredProducts, 1, n))]
MetadataOfSize(m) ==
    [i \in 1..m |-> [content |-> IF i % 2 = 1 THEN C_PTO ELSE C_MISC,
                     metadata |-> MetaPool[((i - 1) % Len(MetaPool)) + 1]]] \o <<>>

\* what may be found on disk: each file absent, or written with some number of entries
Artifacts ==
    {[index_file |-> index_file, metadata_file |-> metadata_file] :
        index_file \in {NoFile} \cup {File(IndexOfSize(n), 1) : n \in 1..MaxStored},
        metadata_file \in {NoFile} \cup {File(MetadataOfSize(m), 1) : m \in 1..MaxStored}}

\* nothing is loaded before the Retriever is constructed
NotLoaded == [op |-> "start"]

InitLoad ==
    /\ rerank \in BOOLEAN
    /\ edge_case_min_score = 80
    /\ similarity_threshold = 75
    /\ top_k = 5
    /\ max_context_length = 5000
    /\ metadata = <<>>
    /\ index = [q \in KnowledgeQueries |-> <<>>]
    /\ seen_sources = {}
    /\ last = NotLoaded
    /\ pinned = NoCall
    /\ disk \in Artifacts

\* Retriever.__init__: self.index, self.metadata = self._load_index()
LoadIndex ==
    /\ last = NotLoaded
    /\ \E out \in {load_index(disk)} :
         /\ last' = [op |-> "load_index", out |-> [raised |-> out.raised, error |-> out.error]]
         /\ IF out.raised THEN UNCHANGED <<metadata, index>>
            ELSE metadata' = out.metadata /\ index' = out.index
    /\ UNCHANGED <<rerank, edge_case_min_score, similarity_threshold, top_k,
                   max_context_length, disk, seen_sources, pinned>>

\* the Retriever exists: its construction returned
Constructed == last.op \in {"load_index", "retrieve"} /\ ~(last.op = "load_index" /\ last.out.raised)

\* a call of Retriever.retrieve on the constructed Retriever
RetrieveLoaded(q, top_k_arg, embed_ok) ==
    /\ Constructed
    /\ \E out \in {retrieve(q, top_k_arg, None, embed_ok, TRUE)} :
         /\ last' = [op |-> "retrieve", query |-> q, top_k_arg |-> top_k_arg,
                     out |-> [raised |-> out.raised, results |-> out.results]]
         /\ seen_sources' = out.seen
    /\ UNCHANGED <<loaded, disk, pinned>>

NextLoad ==
    \/ LoadIndex
    \/ \E q \in KnowledgeQueries, top_k_arg \in {None, 1}, embed_ok \in BOOLEAN :
         RetrieveLoaded(q, top_k_arg, embed_ok)

SpecLoad == InitLoad /\ [][NextLoad]_vars

(***************************************************************************)
(* Requests served concurrently over the shared index and metadata table.  *)
(***************************************************************************)
\* Retriever.retrieve_with_metadata_filter; with top_k left at None its first statement
\* multiplies None by 2
FilteredResults(results, metadata_filter, top_k_arg) ==
    LET Matches(result) ==
            \A k \in DOMAIN metadata_filter :
                k \in DOMAIN result.metadata /\ result.metadata[k] = metadata_filter[k]
        filtered_results == SelectSeq(results, Matches)
    IN  IF top_k_arg # 0
        THEN SubSeq(filtered_results, 1, Min(top_k_arg, Len(filtered_results)))
        ELSE filtered_results

retrieve_with_metadata_filter(query_text, metadata_filter, top_k_arg, embed_ok, search_ok) ==
    IF top_k_arg = None
    THEN [raised |-> TRUE, error |-> "TypeError", results |-> <<>>, retrieved |-> <<>>]
    ELSE TheOne({IF retrieval.raised
                 THEN [raised |-> TRUE, error |-> retrieval.error, results |-> <<>>,
                       retrieved |-> <<>>]
                 ELSE [raised |-> FALSE, error |-> "",
                       results |-> FilteredResults(retrieval.results, metadata_filter,
                                                   top_k_arg),
                       retrieved |-> retrieval.results] :
                    retrieval \in {retrieve(query_text, top_k_arg * 2, None, embed_ok,
                                            search_ok)}})

\* the boosted score written through result["metadata"], the dict of the table itself
ScoresWrittenToTable(table, results) ==
    [i \in 1..Len(table) |->
        IF \E j \in 1..Len(results) : results[j].metadata = table[i].metadata
        THEN LET j == CHOOSE j \in 1..Len(results) : results[j].metadata = table[i].metadata
             IN  [table[i] EXCEPT !.metadata = [score |-> results[j].score] @@ @]
        ELSE table[i]] \o <<>>
\* the table after a retrieval: retrieve appends dicts of its own to results, and
\* _rerank_results assigns result["score"] in those; the dicts of the table are only read
TableAfter(table, results) == table

\* what a call returns, and the documents its retrieval returned
ResultOf(call) ==
    CASE call.kind = "retrieve" ->
            TheOne({[raised |-> out.raised, results |-> out.results,
                     retrieved |-> out.results] :
                        out \in {retrieve(call.question, call.top_k_arg, None, TRUE, TRUE)}})
      [] call.kind = "retrieve_with_metadata_filter" ->
            retrieve_with_metadata_filter(call.question, call.metadata_filter,
                                          call.top_k_arg, TRUE, TRUE)
      [] call.kind = "query" ->
            query(call.question, NoHistory, call.top_k_arg, TRUE, TRUE, A_PLAIN)
      [] call.kind = "stream_query" ->
            stream_query(call.question, NoHistory, call.top_k_arg, TRUE, TRUE,
                         [chunks |-> <<ChunkAt(1), ChunkAt(2)>>, fails_after |-> None])

Call(kind, question, top_k_arg, metadata_filter) ==
    [kind |-> kind, question |-> question, top_k_arg |-> top_k_arg,
     metadata_filter |-> metadata_filter]

Calls ==
    {Call("retrieve", Q_PTO, None, <<>>),
     Call("retrieve_with_metadata_filter", Q_PTO, 1, [file_type |-> ".md"]),
     Call("retrieve_with_metadata_filter", Q_PTO, None, [file_type |-> ".md"]),
     Call("query", Q_PTO, None, <<>>),
     Call("query", Q_HELLO, None, <<>>),
     Call("stream_query", Q_PTO, None, <<>>)}

MaxRequests == 2

Idle == [state |-> "idle"]

\* the pipeline loaded from the artifacts on disk, and no request in flight
InitShared ==
    /\ rerank \in BOOLEAN
    /\ edge_case_min_score = 80
    /\ similarity_threshold = 75
    /\ top_k = 5
    /\ max_context_length = 5000
    /\ metadata = [i \in 1..2 |->
                      [content |-> IF i = 1 THEN C_PTO ELSE C_MISC, metadata |-> MetaPool[i]]]
    /\ index = [q \in KnowledgeQueries |-> IF q = Q_PTO THEN <<85, 78>> ELSE <<60, 50>>]
    /\ seen_sources = {}
    /\ last = [op |-> "serving", requests |-> [s \in 1..MaxRequests |-> Idle]]
    /\ pinned = NoCall
    /\ disk = Saved(index, metadata, 1)

\* a request arrives while others may be in flight
Start(s, call) ==
    /\ last.requests[s].state \in {"idle", "done"}
    /\ last' = [last EXCEPT !.requests[s] = [state |-> "inflight", call |-> call]]
    /\ UNCHANGED <<loaded, disk, seen_sources, pinned>>

\* a request in flight runs against the shared index and table and returns
Finish(s) ==
    /\ last.requests[s].state = "inflight"
    /\ \E out \in {ResultOf(last.requests[s].call)} :
         /\ last' = [last EXCEPT !.requests[s] =
                        [state |-> "done", call |-> last.requests[s].call, out |-> out]]
         /\ metadata' = IF rerank /\ "retrieved" \in DOMAIN out
                        THEN TableAfter(metadata, out.retrieved)
                        ELSE metadata
    /\ UNCHANGED <<index, rerank, edge_case_min_score, similarity_threshold, top_k,
                   max_context_length, disk, seen_sources, pinned>>

NextShared ==
    \E s \in 1..MaxRequests :
        \/ \E call \in Calls : Start(s, call)
        \/ Finish(s)

SpecShared == InitShared /\ [][NextShared]_vars

(***************************************************************************)
(* An index rebuild running while Retrievers are constructed.              *)
(***************************************************************************)
MaxBuilds == 3
MaxLoaders == 2

\* the index and the metadata that the build with the given number saves
BuiltIndex(build) == IndexOfSize(((build - 1) % MaxStored) + 1)
BuiltMetadata(build) == MetadataOfSize(((build - 1) % MaxStored) + 1)

NotStarted == [pc |-> "idle", index_build |-> 0, metadata_build |-> 0]

\* no artifacts yet, no build running, no Retriever under construction
InitRebuild ==
    /\ rerank = FALSE
    /\ edge_case_min_score = 80
    /\ similarity_threshold = 75
    /\ top_k = 5
    /\ max_context_length = 5000
    /\ metadata = <<>>
    /\ index = [q \in KnowledgeQueries |-> <<>>]
    /\ seen_sources = {}
    /\ last = [op |-> "rebuild", builder |-> [pc |-> "idle", build |-> 0],
               loaders |-> [l \in 1..MaxLoaders |-> NotStarted]]
    /\ pinned = NoCall
    /\ disk = [index_file |-> NoFile, metadata_file |-> NoFile]

\* build_index has computed the index and the metadata of a new build and calls
\* _save_index
StartSave ==
    /\ last.builder.pc = "idle"
    /\ last.builder.build < MaxBuilds
    /\ last' = [last EXCEPT !.builder = [pc |-> "save_index", build |-> @.build + 1]]
    /\ UNCHANGED <<loaded, disk, seen_sources, pinned>>

\* faiss.write_index(index, str(index_file)): index.faiss is overwritten where it is
WriteIndexFile ==
    /\ last.builder.pc = "save_index"
    /\ disk' = [disk EXCEPT !.index_file =
                   File(BuiltIndex(last.builder.build), last.builder.build)]
    /\ last' = [last EXCEPT !.builder.pc = "save_metadata"]
    /\ UNCHANGED <<loaded, seen_sources, pinned>>

\* with open(metadata_file, "w") ...: json.dump(metadata, f): metadata.json is
\* overwritten where it is
WriteMetadataFile ==
    /\ last.builder.pc = "save_metadata"
    /\ disk' = [disk EXCEPT !.metadata_file =
                   File(BuiltMetadata(last.builder.build), last.builder.build)]
    /\ last' = [last EXCEPT !.builder.pc = "idle"]
    /\ UNCHANGED <<loaded, seen_sources, pinned>>

\* load_index tests that both files exist: FileNotFoundError if one does not
CheckFiles(l) ==
    /\ last.loaders[l].pc \in {"idle", "raised", "loaded"}
    /\ last' = [last EXCEPT !.loaders[l] =
                   [NotStarted EXCEPT !.pc = IF BothFilesExist(disk) THEN "read_index"
                                             ELSE "raised"]]
    /\ UNCHANGED <<loaded, disk, seen_sources, pinned>>

\* index = faiss.read_index(str(index_file))
ReadIndexFile(l) ==
    /\ last.loaders[l].pc = "read_index"
    /\ last' = [last EXCEPT !.loaders[l] =
                   [@ EXCEPT !.pc = "read_metadata", !.index_build = disk.index_file.build]]
    /\ UNCHANGED <<loaded, disk, seen_sources, pinned>>

\* metadata = json.load(f); return index, metadata: the Retriever keeps the pair
ReadMetadataFile(l) ==
    /\ last.loaders[l].pc = "read_metadata"
    /\ last' = [last EXCEPT !.loaders[l] =
                   [@ EXCEPT !.pc = "loaded", !.metadata_build = disk.metadata_file.build]]
    /\ index' = BuiltIndex(last.loaders[l].index_build)
    /\ metadata' = disk.metadata_file.content
    /\ UNCHANGED <<rerank, edge_case_min_score, similarity_threshold, top_k,
                   max_context_length, disk, seen_sources, pinned>>

NextRebuild ==
    \/ StartSave
    \/ WriteIndexFile
    \/ WriteMetadataFile
    \/ \E l \in 1..MaxLoaders : CheckFiles(l)
    \/ \E l \in 1..MaxLoaders : ReadIndexFile(l)
    \/ \E l \in 1..MaxLoaders : ReadMetadataFile(l)

SpecRebuild == InitRebuild /\ [][NextRebuild]_vars

(***************************************************************************)
(* Properties of Retriever.retrieve.                                       *)
(***************************************************************************)
Returned == last.op = "retrieve" /\ ~last.out.raised

Results == last.out.results

\* the candidates the index returned (without the -1 padding)
Fetched == {i \in 1..Len(last.out.candidates) : last.out.candidates[i].doc_idx # -1}
FetchedScore(i) == NormalizedScore(last.out.candidates[i].distance)
FetchedSource(i) == Get(DocMetadata(last.out.candidates[i].doc_idx).metadata.source, "")

\* C1: every result returned by retrieve has a score in [0.0, 1.0], whatever raw
\* similarities the index returned and with or without reranking
ScoresInUnitRange ==
    Returned => \A i \in 1..Len(Results) : 0 <= Results[i].score /\ Results[i].score <= 100

\* the index returned a raw similarity above 1 and one below 0, and results came back
WitnessScoresInUnitRange ==
    /\ Returned
    /\ Results # <<>>
    /\ \E i \in Fetched : last.out.candidates[i].distance > 100
    /\ \E i \in Fetched : last.out.candidates[i].distance < 0

\* C2: no two results of one retrieve call have the same source
NoDuplicateSources ==
    Returned => \A i, j \in 1..Len(Results) :
                    i # j => Get(Results[i].metadata.source, "") # Get(Results[j].metadata.source, "")

\* two results came back although three candidates were fetched, two of one source
WitnessNoDuplicateSources ==
    /\ Returned
    /\ Len(Results) = 2
    /\ \E i, j \in Fetched : i # j /\ FetchedSource(i) = FetchedSource(j)

\* C3: when the best (clamped) score among the fetched candidates is below
\* edge_case_min_score, retrieve returns the empty list
LowConfidenceIsEmpty ==
    (Returned /\ \A i \in Fetched : FetchedScore(i) < edge_case_min_score)
        => Results = <<>>

\* the gate fired although a candidate passed the similarity threshold
WitnessLowConfidenceIsEmpty ==
    /\ Returned
    /\ Fetched # {}
    /\ \A i \in Fetched : FetchedScore(i) < edge_case_min_score
    /\ \E i \in Fetched : FetchedScore(i) >= last.out.threshold
    /\ Results = <<>>

\* C9: without reranking every result carries the best score of its source among
\* the fetched candidates; chunks [0.95, 0.91, 0.88] of one source give one result
BestChunkPerSource ==
    (Returned /\ ~rerank) =>
        /\ \A r \in 1..Len(Results) : \A i \in Fetched :
               FetchedSource(i) = Get(Results[r].metadata.source, "")
                   => FetchedScore(i) <= Results[r].score
        /\ ( /\ Cardinality(Fetched) = 3
             /\ \A i \in Fetched : FetchedSource(i) = FetchedSource(1)
             /\ [i \in 1..3 |-> last.out.candidates[i].distance] = <<95, 91, 88>>
             /\ last.out.threshold <= 95 /\ edge_case_min_score <= 95 )
           => Len(Results) = 1 /\ Results[1].score = 95

\* the three chunks 0.95, 0.91, 0.88 of one source gave the single result 0.95
WitnessBestChunkPerSource ==
    /\ Returned /\ ~rerank
    /\ last.out.top_k = 3
    /\ Cardinality(Fetched) = 3
    /\ \A i \in Fetched : FetchedSource(i) = FetchedSource(1)
    /\ [i \in 1..3 |-> last.out.candidates[i].distance] = <<95, 91, 88>>
    /\ Len(Results) = 1 /\ Results[1].score = 95

\* the fetched candidates that are the first of their source and pass the threshold
FirstOfSourceAboveThreshold ==
    {i \in Fetched :
        /\ \A j \in Fetched : j < i => FetchedSource(j) # FetchedSource(i)
        /\ FetchedScore(i) >= last.out.threshold}
\* the n-th smallest element of a set of positions
Nth(positions, n) == CHOOSE i \in positions : Cardinality({j \in positions : j < i}) = n - 1

\* C25: with reranking disabled and the confidence gate not firing, retrieve returns the
\* walk of the 3*top_k fetched candidates in descending score order: the first chunk of
\* each source, if its clamped score is >= similarity_threshold, until top_k results are
\* collected; so at most top_k results, each >= the threshold, in non-increasing order
ResultIsThresholdedWalk ==
    (Returned /\ ~rerank /\ ~GateFires(last.out.max_score, last.out.threshold)) =>
        /\ Len(last.out.candidates) = 3 * last.out.top_k
        /\ \A i, j \in Fetched : i < j => FetchedScore(i) >= FetchedScore(j)
        /\ Len(Results) = Min(last.out.top_k, Cardinality(FirstOfSourceAboveThreshold))
        /\ \A r \in 1..Len(Results) :
               LET i == Nth(FirstOfSourceAboveThreshold, r)
                   doc_metadata == DocMetadata(last.out.candidates[i].doc_idx)
               IN  Results[r] = [content |-> doc_metadata.content,
                                 metadata |-> doc_metadata.metadata,
                                 score |-> FetchedScore(i)]
        /\ Len(Results) <= last.out.top_k
        /\ \A r \in 1..Len(Results) : Results[r].score >= last.out.threshold
        /\ \A r \in 1..(Len(Results) - 1) : Results[r].score >= Results[r + 1].score

\* a walk that skipped the second chunk of a source, dropped the first chunk of another
\* source for its score below the threshold, and returned the one result left, with
\* room for more
WitnessResultIsThresholdedWalk ==
    /\ Returned /\ ~rerank /\ ~GateFires(last.out.max_score, last.out.threshold)
    /\ Len(Results) = 1
    /\ last.out.top_k > 1
    /\ \E i, j \in Fetched : i < j /\ FetchedSource(i) = FetchedSource(j)
    /\ \E i \in Fetched :
          /\ \A j \in Fetched : j < i => FetchedSource(j) # FetchedSource(i)
          /\ FetchedScore(i) < last.out.threshold

\* C6: a retrieve call with the arguments of an earlier call on the unchanged index
\* returns the same list, also after other calls and with reranking
RepeatedRetrieveIsIdentical ==
    (pinned # NoCall /\ SameArgs(last, pinned.call))
        => last.out.results = pinned.call.out.results

\* the first call was repeated after a different call, with reranking, and the
\* reranker changed the order of two results
WitnessRepeatedRetrieve ==
    /\ pinned # NoCall /\ pinned.other
    /\ SameArgs(last, pinned.call)
    /\ rerank
    /\ Len(last.out.results) = 2
    /\ last.out.results[1].metadata.source = "b/x.md"


(***************************************************************************)
(* Properties of RAGPipeline.query.                                        *)
(***************************************************************************)
Answered == last.op = "query" /\ ~last.out.raised

FilenameOf(doc) == Get(doc.metadata.filename, "Unknown")

\* the positions of the retrieval output at which a filename occurs for the first time
FirstOccurrences(docs) ==
    {i \in 1..Len(docs) : \A j \in 1..(i - 1) : FilenameOf(docs[j]) # FilenameOf(docs[i])}

\* C4: the sources of an answer have distinct filenames, and the k-th source is the
\* k-th filename to occur first in the retrieval output, with that occurrence's score
SourcesInFirstOccurrenceOrder ==
    Answered =>
        LET sources == last.out.sources
            docs == last.out.retrieved
        IN  /\ \A k, l \in 1..Len(sources) : k # l => sources[k].filename # sources[l].filename
            /\ \A k \in 1..Len(sources) : \E i \in FirstOccurrences(docs) :
                   /\ Cardinality({j \in FirstOccurrences(docs) : j <= i}) = k
                   /\ sources[k].filename = FilenameOf(docs[i])
                   /\ sources[k].relevance_score = docs[i].score

\* three chunks were retrieved, the third with the filename of the first, and the
\* answer names two sources
WitnessSourcesInFirstOccurrenceOrder ==
    /\ Answered
    /\ Len(last.out.retrieved) = 3
    /\ FilenameOf(last.out.retrieved[1]) = FilenameOf(last.out.retrieved[3])
    /\ last.out.retrieved[1].score > last.out.retrieved[3].score
    /\ Len(last.out.sources) = 2

\* the classification in the words of the claim
TrimmedLower(question) == Lower(Strip(question))
GreetingPhrased(question) ==
    \E g \in Range(greeting_patterns) :
        TrimmedLower(question) = g \/ StartsWith(TrimmedLower(question), g)
IntroPhrased(question) ==
    \E p \in Range(intro_patterns) : Contains(TrimmedLower(question), p)

\* C7: a greeting or an introduction request gets its canned response with no
\* sources, and neither the embedding service, the index nor the generation
\* service is called
GreetingAndIntroShortCircuit ==
    (last.op = "query" /\ (GreetingPhrased(last.question) \/ IntroPhrased(last.question)))
        => /\ ~last.out.raised
           /\ last.out.answer =
                  IF GreetingPhrased(last.question) THEN GREETING_RESPONSE ELSE INTRO_RESPONSE
           /\ last.out.sources = <<>>
           /\ last.out.embed_calls = 0
           /\ last.out.search_calls = 0
           /\ last.out.gen_calls = 0

\* "  Hi there" was answered with the greeting although the index holds a good match
WitnessGreetingShortCircuit ==
    /\ last.op = "query"
    /\ last.question = Q_HI_THERE
    /\ last.out.answer = GREETING_RESPONSE
    /\ Len(metadata) > 0 /\ index[Q_PTO][1] = 95

\* C8: when the retriever returns no results, query returns the no-information
\* answer with no sources, without calling the generation service and without raising
EmptyRetrievalIsNoInfo ==
    (last.op = "query" /\ last.out.retrieve_returned /\ last.out.retrieved = <<>>)
        => /\ ~last.out.raised
           /\ last.out.answer = NO_INFO
           /\ last.out.sources = <<>>
           /\ last.out.retrieved_docs = <<>>
           /\ last.out.gen_calls = 0

\* the best candidate (0.78) passed the similarity threshold, the confidence gate
\* fired, and the no-information answer came back
WitnessEmptyRetrievalIsNoInfo ==
    /\ last.op = "query"
    /\ last.out.search_calls = 1
    /\ Len(metadata) > 0 /\ index[Q_PTO][1] = 78
    /\ similarity_threshold <= 78 /\ 78 < edge_case_min_score
    /\ last.out.answer = NO_INFO /\ ~last.out.raised

(***************************************************************************)
(* Properties of PromptBuilder.build_prompt.                               *)
(***************************************************************************)
EndsWith(s, p) == Len(p) <= Len(s) /\ SubSeq(s, Len(s) - Len(p) + 1, Len(s)) = p

\* the rule that closes the context block in both templates
CLOSING_RULE == SubSeq(QUERY_TEMPLATE_MIDDLE, 1, 23)

\* C10: a context longer than max_context_length enters the prompt as its first
\* max_context_length characters followed by the truncation marker, a context that
\* is not longer enters unchanged and without marker, and in both cases the prompt
\* holds the whole question
TruncationKeepsQuestion ==
    last.op = "build_prompt" =>
        LET context == format_context(last.retrieved_docs)
            prompt == last.out.prompt
        IN  /\ Len(context) > max_context_length =>
                   StartsWith(prompt, TEMPLATE_HEAD \o SubSeq(context, 1, max_context_length)
                                          \o TRUNCATION_MARKER \o CLOSING_RULE)
            /\ Len(context) <= max_context_length =>
                   StartsWith(prompt, TEMPLATE_HEAD \o context \o CLOSING_RULE)
            /\ EndsWith(prompt, <<"Q","u","e","s","t","i","o","n",":"," ">>
                                    \o last.question \o TEMPLATE_TAIL)

\* a context of 40 characters was cut to 39 in a prompt with chat history
WitnessTruncation ==
    /\ last.op = "build_prompt"
    /\ Len(format_context(last.retrieved_docs)) = 40
    /\ max_context_length = 39
    /\ last.chat_history.turns # <<>>
    /\ Contains(last.out.prompt, TRUNCATION_MARKER)

(***************************************************************************)
(* Properties of RAGMetrics.evaluate.                                      *)
(***************************************************************************)
Evaluated == last.op = "evaluate"

\* C5: the overall value returned by evaluate equals 0.30*retrieval_score +
\* 0.25*faithfulness + 0.25*relevance + 0.20*completeness of the four component values
\* of the same dict, and the four weights sum to 1.0
OverallIsWeightedSum ==
    /\ RAdd(RAdd(weights.retrieval_score, weights.faithfulness),
            RAdd(weights.relevance, weights.completeness)) = <<1, 1>>
    /\ Evaluated =>
         last.out.overall =
             RAdd(RAdd(RMul(<<30, 100>>, last.out.retrieval_score),
                       RMul(<<25, 100>>, last.out.faithfulness)),
                  RAdd(RMul(<<25, 100>>, last.out.relevance),
                       RMul(<<20, 100>>, last.out.completeness)))

\* an evaluation whose four components are pairwise different and none of them 0 or 1
WitnessOverallIsWeightedSum ==
    /\ Evaluated
    /\ Cardinality({last.out.retrieval_score, last.out.faithfulness,
                    last.out.relevance, last.out.completeness, <<0, 1>>, <<1, 1>>}) = 6

DeclinesToAnswer ==
    \E phrase \in FAITHFULNESS_NO_INFO_PHRASES : Contains(Lower(TextOf(last.answer)), phrase)

\* C11: for an answer that contains a no-information phrase and any retrieved set, empty
\* or not, faithfulness is 1.0 when the retrieval score is below 0.3 and 0.8 otherwise
NoInfoFaithfulness ==
    (Evaluated /\ DeclinesToAnswer) =>
        last.out.faithfulness =
            (IF RLess(last.out.retrieval_score, <<3, 10>>) THEN <<1, 1>> ELSE <<4, 5>>)

(***************************************************************************)
(* Properties of the top_k argument.                                       *)
(***************************************************************************)
\* a call that hands its top_k to Retriever.retrieve
ReachesRetriever ==
    \/ last.op = "retrieve"
    \/ last.op = "query" /\ ~last.out.is_greeting /\ ~last.out.is_intro

\* C12: retrieve, and query which passes top_k through, reject a top_k of 0 or less
\* with a validation error; such a call never returns an empty list or the
\* no-information answer as a normal outcome
NonPositiveTopKIsRejected ==
    (ReachesRetriever /\ EffectiveTopK(last.top_k_arg) <= 0) =>
        /\ last.out.raised
        /\ last.out.error = "ValidationError"

(***************************************************************************)
(* The consumers of the answer text.                                       *)
(***************************************************************************)
\* the prefix display_message tests to recognise the no-information reply
NO_INFO_PREFIX == <<"I"," ","d","o","n","'","t"," ","h","a","v","e"," ","e","n","o","u","g","h"," ","i","n","f","o","r","m","a","t","i","o","n">>

\* display_message: content.startswith("I don't have enough information")
DisplayedAsNoInfo(content) == StartsWith(content, NO_INFO_PREFIX)

\* the no-information test of _calculate_relevance and _calculate_completeness
ScoredAsNoInfo(answer) == \E phrase \in NO_INFO_PHRASES : Contains(Lower(answer), phrase)

\* C13: no answer text returned on the generation path equals the fixed no-information
\* reply, starts with it, or is taken for it by the downstream no-information tests, so
\* a consumer can tell the two outcomes apart by the answer text alone
GeneratedAnswerIsDistinguishable ==
    (last.op = "query" /\ last.out.path = "generated") =>
        /\ TextOf(last.out.answer) # NO_INFO_TEXT
        /\ ~StartsWith(TextOf(last.out.answer), NO_INFO_TEXT)
        /\ ~DisplayedAsNoInfo(TextOf(last.out.answer))
        /\ ~ScoredAsNoInfo(TextOf(last.out.answer))

(***************************************************************************)
(* Properties of the streaming paths.                                      *)
(***************************************************************************)
\* C14: when retrieval yields nothing, stream_query yields exactly one fragment, the
\* apology text, and then ends, without calling the generation service
EmptyRetrievalStreamsApology ==
    (last.op = "stream_query" /\ last.out.retrieve_returned /\ last.out.retrieved = <<>>)
        => /\ last.out.yielded = <<APOLOGY>>
           /\ ~last.out.raised
           /\ last.out.gen_calls = 0

\* the confidence gate emptied the retrieval (best candidate 0.78) and a stream with
\* content was at hand, yet only the apology came out
WitnessEmptyRetrievalStreamsApology ==
    /\ last.op = "stream_query"
    /\ last.out.retrieve_returned
    /\ Len(metadata) > 0 /\ index[Q_PTO][1] = 78
    /\ YieldedOf(last.stream) # <<>>
    /\ last.out.yielded = <<APOLOGY>>

\* a streaming call that reached the generation service
Streamed == last.op \in {"stream_query", "stream_generate"} /\ last.out.gen_calls = 1

\* C15: on both streaming paths the non-empty fragments are yielded in arrival order,
\* and when the generation service fails mid-stream the consumer receives the fragments
\* that arrived before the failure and then a raised error, never a normal end of
\* stream or a text fragment in place of the error
StreamFailureIsTerminalError ==
    Streamed =>
        /\ last.out.yielded = YieldedOf(last.stream)
        /\ last.out.raised = (last.stream.fails_after # None)

(***************************************************************************)
(* Properties of the faithfulness check of RAGPipeline.query.              *)
(***************************************************************************)
Generated == last.op = "query" /\ last.out.path = "generated"

\* the same call with a completion in which no hedge or opinion phrase is found
WithoutMatch == query(last.question, NoHistory, last.top_k_arg, TRUE, TRUE, A_PLAIN)

\* C16: the faithfulness check of query only detects: with or without a hedge/opinion
\* phrase in it, the returned answer is the text of the single generation call, sources
\* and retrieved_docs are those of the call without a match, and no second generation
\* call is made
FaithfulnessCheckOnlyDetects ==
    Generated =>
        /\ last.out.answer = last.out.completion
        /\ last.out.sources = WithoutMatch.sources
        /\ last.out.retrieved_docs = WithoutMatch.retrieved_docs
        /\ last.out.gen_calls = 1

\* "I think PTO is flexible." was found unfaithful and came back as the answer
WitnessFaithfulnessCheckOnlyDetects ==
    /\ Generated
    /\ last.out.unfaithful
    /\ last.out.answer = A_OPINION
    /\ last.out.sources # <<>>

(***************************************************************************)
(* Properties of the chat history in the prompt.                           *)
(***************************************************************************)
RoleLabel(role) ==
    IF role = ROLE_USER THEN <<"U","s","e","r">>
    ELSE IF role = ROLE_ASSISTANT THEN <<"A","s","s","i","s","t","a","n","t">>
    ELSE <<"S","y","s","t","e","m">>

\* the lines of the last min(n, 5) of the n turns, oldest first
ExpectedHistoryLines(turns) ==
    LET n == Len(turns)
        m == IF n < 5 THEN n ELSE 5
    IN  [j \in 1..m |-> RoleLabel(turns[n - m + j].role) \o <<":", " ">>
                            \o turns[n - m + j].content] \o <<>>

BuiltWithHistory ==
    last.op = "build_prompt" /\ last.chat_history.given /\ last.chat_history.turns # <<>>

\* C17: for a chat history of n turns the prompt renders exactly the last min(n, 5)
\* turns, oldest first, one line per turn, each prefixed by the capitalized role label
HistoryKeepsLastFiveTurns ==
    BuiltWithHistory =>
        EndsWith(last.out.prompt,
                 CHAT_TEMPLATE_MIDDLE \o Join(ExpectedHistoryLines(last.chat_history.turns))
                     \o CHAT_TEMPLATE_QUESTION \o last.question \o TEMPLATE_TAIL)

\* a history of six turns was rendered without its first turn
WitnessHistoryKeepsLastFiveTurns ==
    /\ BuiltWithHistory
    /\ Len(last.chat_history.turns) = 6
    /\ ~Contains(last.out.prompt, <<"U","s","e","r",":"," ","h","i">>)
    /\ Contains(last.out.prompt, <<"S","y","s","t","e","m",":"," ","6","\n">>)

BuiltWithoutHistory ==
    last.op = "build_prompt" /\ (~last.chat_history.given \/ last.chat_history.turns = <<>>)

\* C18: when the chat history is absent or empty, the built prompt renders the fixed
\* no-previous-conversation marker in place of the history
AbsentHistoryRendersMarker ==
    BuiltWithoutHistory => Contains(last.out.prompt, NO_PREVIOUS_CONVERSATION)

InUnitInterval(x) == ~RLess(x, <<0, 1>>) /\ ~RLess(<<1, 1>>, x)

ScoresInUnitInterval(retrieved_docs) ==
    \A i \in 1..Len(retrieved_docs) :
        retrieved_docs[i].score >= 0 /\ retrieved_docs[i].score <= 100

\* C19: for a retrieved set whose scores lie in [0,1], each of the five values returned
\* by evaluate (retrieval_score, faithfulness, relevance, completeness, overall) lies
\* in [0,1]
MetricsInUnitInterval ==
    (Evaluated /\ ScoresInUnitInterval(last.retrieved_docs)) =>
        /\ InUnitInterval(last.out.retrieval_score)
        /\ InUnitInterval(last.out.faithfulness)
        /\ InUnitInterval(last.out.relevance)
        /\ InUnitInterval(last.out.completeness)
        /\ InUnitInterval(last.out.overall)

\* an evaluation of a generated answer over documents at both ends of the score range:
\* retrieval in the steepest band, every component strictly between 0 and 1
WitnessMetricsInUnitInterval ==
    /\ Evaluated
    /\ \E i \in 1..Len(last.retrieved_docs) : last.retrieved_docs[i].score = 100
    /\ \E i \in 1..Len(last.retrieved_docs) : last.retrieved_docs[i].score = 0
    /\ RLess(<<0, 1>>, last.out.faithfulness) /\ RLess(last.out.faithfulness, <<1, 1>>)
    /\ RLess(<<0, 1>>, last.out.relevance) /\ RLess(last.out.relevance, <<1, 1>>)
    /\ RLess(<<0, 1>>, last.out.completeness) /\ RLess(last.out.completeness, <<1, 1>>)
    /\ RLess(<<0, 1>>, last.out.overall) /\ RLess(last.out.overall, <<1, 1>>)

(***************************************************************************)
(* Properties of run_evaluation.                                           *)
(***************************************************************************)
Ran == last.op = "run_evaluation"

\* the position in the test questions of the test case whose query gave results[j]
OwnCase(test_questions, j) ==
    CHOOSE i \in 1..Len(test_questions) :
        /\ test_questions[i].question # <<>>
        /\ Cardinality({k \in 1..i : test_questions[k].question # <<>>}) = j

Member(j, positions) == \E i \in 1..Len(positions) : positions[i] = j

\* C20: for any list of test cases, the result of a query that succeeded contributes to
\* the main-query averages if and only if the category of its own test case is none of
\* greeting, introduction, edge_case, impossible; the results of those four categories
\* are counted only in the greeting and edge-case summaries
MainAveragesByOwnCategory ==
    Ran =>
        \A j \in 1..Len(last.out.results) :
            "error" \notin DOMAIN last.out.results[j] =>
                LET category == last.test_questions[OwnCase(last.test_questions, j)].category
                IN  /\ Member(j, last.out.main_results)
                        <=> category \notin {"greeting", "introduction", "edge_case", "impossible"}
                    /\ Member(j, last.out.greeting_results)
                        <=> category \in {"greeting", "introduction"}
                    /\ Member(j, last.out.edge_results)
                        <=> category \in {"edge_case", "impossible"}

(***************************************************************************)
(* Properties of the HTTP query endpoint.                                  *)
(***************************************************************************)
RequestFailed == last.op = "query_knowledge_base" /\ last.out.status = 500

\* C21: when an internal failure occurs during query processing, the user-visible
\* response is a generic failure whose content does not depend on the internal
\* exception's message, and the failure is logged server-side
FailureResponseIsGeneric ==
    RequestFailed =>
        /\ \A message \in ServiceMessages :
               query_knowledge_base(last.rag_pipeline_ready, last.question,
                                    last.max_sources, last.embed_ok, last.search_ok,
                                    last.llm, message).detail = last.out.detail
        /\ \E i \in 1..Len(last.out.logged) : last.out.logged[i] = "Error processing query"

(***************************************************************************)
(* Properties of RAGPipeline.query under service failures.                 *)
(***************************************************************************)
\* the query called the embedding service and the call failed
EmbeddingFailed ==
    /\ last.op = "query"
    /\ ~last.embed_ok

\* C22: if the embedding service call fails while a query is processed, exactly one
\* embedding call is attempted, the failure is raised to the caller of retrieve and of
\* query, no answer record is returned and no generation call is made
EmbeddingFailureIsRaised ==
    EmbeddingFailed =>
        /\ last.out.embed_calls = 1
        /\ ~last.out.retrieve_returned
        /\ last.out.raised
        /\ last.out.answer = "" /\ last.out.sources = <<>>
        /\ last.out.search_calls = 0
        /\ last.out.gen_calls = 0

\* the embedding call failed for a question that the index and the generation service
\* would have answered
WitnessEmbeddingFailureIsRaised ==
    /\ EmbeddingFailed
    /\ last.out.raised
    /\ last.top_k_arg = None
    /\ Len(metadata) > 0 /\ index[Q_PTO][1] = 95
    /\ last.question = Q_PTO

(***************************************************************************)
(* Properties of the index load.                                           *)
(***************************************************************************)
\* C23: loading succeeds, and a query is served, only if both persisted artifacts are
\* present and the number of vectors in the index equals the number of metadata entries
LoadRequiresConsistentPair ==
    Constructed =>
        /\ disk.index_file.exists /\ disk.metadata_file.exists
        /\ NTotal = Len(metadata)

(***************************************************************************)
(* Properties of concurrent requests.                                      *)
(***************************************************************************)
Serving == last.op = "serving"

\* C24: after the index is loaded, no sequence or interleaving of query, stream_query,
\* retrieve and retrieve_with_metadata_filter calls changes the shared index or the
\* shared metadata table, so every request has the result it has when run alone
SharedTablesAreReadOnly ==
    Serving =>
        /\ index = disk.index_file.content
        /\ metadata = disk.metadata_file.content
        /\ \A s \in 1..MaxRequests :
               last.requests[s].state = "done" =>
                   last.requests[s].out = ResultOf(last.requests[s].call)

\* with reranking on, a retrieve whose scores were boosted and a query that generated an
\* answer have both returned
WitnessSharedTablesAreReadOnly ==
    /\ Serving
    /\ rerank
    /\ \E s \in 1..MaxRequests :
          /\ last.requests[s].state = "done"
          /\ last.requests[s].call.kind = "retrieve"
          /\ last.requests[s].out.results # <<>>
          /\ last.requests[s].out.results[1].score = 100
    /\ \E s \in 1..MaxRequests :
          /\ last.requests[s].state = "done"
          /\ last.requests[s].call.kind = "query"
          /\ last.requests[s].out.path = "generated"

\* whether a call reached the retriever: retrieve embeds the question and searches
RetrieverInvoked(out) == out.embed_calls + out.search_calls > 0

\* C26: stream_query follows the per-request state machine of query: it invokes the
\* retriever and the generation service exactly when query does on the same question and
\* index, and a greeting or an introduction request reaches neither
StreamFollowsQueryStateMachine ==
    last.op = "stream_query" =>
        \A answered \in {query(last.question, NoHistory, last.top_k_arg, last.embed_ok,
                               last.search_ok, A_PLAIN)} :
            /\ RetrieverInvoked(last.out) <=> RetrieverInvoked(answered)
            /\ last.out.gen_calls = answered.gen_calls
            /\ (_is_greeting(last.question) \/ _is_intro_request(last.question)) =>
                   ~RetrieverInvoked(last.out) /\ last.out.gen_calls = 0

\* 0.30*retrieval_score + 0.25*faithfulness + 0.25*relevance + 0.20*completeness
WeightedSumOf(metrics) ==
    RAdd(RAdd(RMul(<<30, 100>>, metrics.retrieval_score),
              RMul(<<25, 100>>, metrics.faithfulness)),
         RAdd(RMul(<<25, 100>>, metrics.relevance),
              RMul(<<20, 100>>, metrics.completeness)))

LoadedDuringRebuild(l) == last.op = "rebuild" /\ last.loaders[l].pc = "loaded"

\* C28: an index rebuild never mutates the persisted artifacts in place while they can
\* be read: a load_index that overlaps a _save_index never gets an index file and a
\* metadata file of two different builds
LoadSeesOneBuild ==
    \A l \in 1..MaxLoaders :
        LoadedDuringRebuild(l) =>
            last.loaders[l].index_build = last.loaders[l].metadata_build

(***************************************************************************)
(* Properties of the two confidence gates.                                 *)
(***************************************************************************)
\* the query got a non-empty list from the retriever
RetrievedNonEmpty == last.op = "query" /\ last.out.retrieve_returned /\ last.out.retrieved # <<>>

\* the best candidate that the index returned for the question of the query
TopCandidate == search(last.question, 3 * EffectiveTopK(last.top_k_arg))[1]

\* C29: a non-empty result of retrieve contains the top-scoring fetched candidate, with
\* a score >= edge_case_min_score; so, the retriever and the pipeline reading the same
\* edge_case_min_score, the branch best_score < edge_case_min_score of query is never
\* taken after a non-empty retrieval
TopCandidateSurvives ==
    RetrievedNonEmpty =>
        /\ \E r \in 1..Len(last.out.retrieved) :
              /\ last.out.retrieved[r].content = DocMetadata(TopCandidate.doc_idx).content
              /\ last.out.retrieved[r].metadata = DocMetadata(TopCandidate.doc_idx).metadata
              /\ last.out.retrieved[r].score >= NormalizedScore(TopCandidate.distance)
              /\ last.out.retrieved[r].score >= edge_case_min_score
        /\ last.out.path # "low_relevance"

\* two chunks came back, the best above edge_case_min_score and the other below it, and
\* the answer was generated
WitnessTopCandidateSurvives ==
    /\ RetrievedNonEmpty
    /\ Len(last.out.retrieved) = 2
    /\ last.out.retrieved[1].score >= edge_case_min_score
    /\ last.out.retrieved[2].score < edge_case_min_score
    /\ last.out.path = "generated"

(***************************************************************************)
(* Properties of the AnswerRecord.                                         *)
(***************************************************************************)
\* the record comes from a canned reply: the greeting, the introduction or the
\* no-information reply, none of which calls the generation service
CannedReply ==
    \/ last.out.is_greeting /\ last.out.answer = GREETING_RESPONSE
    \/ last.out.is_intro /\ last.out.answer = INTRO_RESPONSE
    \/ last.out.answer = NO_INFO /\ last.out.gen_calls = 0

\* C30: the record returned by query has empty sources if and only if it comes from the
\* greeting, introduction or no-information path; a record of the generation path has
\* at least one source and a non-empty retrieved_docs; is_greeting and is_intro are
\* never both set; a question matching both a greeting and an introduction phrase is
\* answered as a greeting
SourcesEmptyOnlyForCannedReplies ==
    Answered =>
        /\ last.out.sources = <<>> <=> CannedReply
        /\ last.out.gen_calls = 1 =>
               Len(last.out.sources) >= 1 /\ last.out.retrieved_docs # <<>>
        /\ ~(last.out.is_greeting /\ last.out.is_intro)
        /\ (_is_greeting(last.question) /\ _is_intro_request(last.question)) =>
               /\ last.out.is_greeting
               /\ last.out.answer = GREETING_RESPONSE

\* an answer generated from a single chunk whose metadata has no filename: its one
\* source is named "Unknown"
WitnessSourcesEmptyOnlyForCannedReplies ==
    /\ Answered
    /\ last.out.gen_calls = 1
    /\ Len(last.out.retrieved_docs) = 1
    /\ last.out.retrieved_docs[1].metadata.filename = Missing
    /\ Len(last.out.sources) = 1
    /\ last.out.sources[1].filename = "Unknown"

====
